---- MODULE Spec2Model ----
(***************************************************************************)
(* Model of the vidmaker editor page (src/app/pages/index.vue): the        *)
(* timeline of clips and overlays, the drag / inspector mutations, the     *)
(* playback clock, the media import batch and the MP4 export pipeline.     *)
(*                                                                         *)
(* Time is counted in centiseconds (1 unit = 0.01 s), so that the 1/20 s   *)
(* time step is 5 units, MIN_CLIP_DURATION (0.2 s) is 20 units and a media *)
(* duration that is not a multiple of the time step can be represented.    *)
(* The single-project and the multi-project editor share the code modelled *)
(* here verbatim; line numbers refer to the single-project variant.        *)
(***************************************************************************)
EXTENDS Integers, Sequences, FiniteSets, TLC

(* ---------------- program constants (in centiseconds / pixels) --------- *)
IMAGE_DEFAULT_DURATION == 300
PX_PER_SECOND == 60
MIN_CLIP_DURATION == 20
STEPS_PER_SECOND == 20
TIME_STEP == 5
IMAGE_MAX_DURATION == 12000
OVERLAY_DEFAULT_DURATION == 250
OVERLAY_MIN_DURATION == 20
SEEK_BUTTON_DELTA == 200
SYNC_TOLERANCE == 20
\* caption times, in ticks of 1/300 s
CUE_MIN_SPAN == 60
CUE_MIN_LENGTH == 24
CUE_DEFAULT_SPAN == 600
PLACEHOLDER_MIN_END == 600
CAPTION_WINDOW_WORD_COUNT == 3
\* volumes, in hundredths
DEFAULT_VOLUME == 100
VOLUME_MAX == 200
UNMUTE_MIN_VOLUME == 10
ELEMENT_VOLUME_MAX == 100

HISTORY_PAGE_LIMIT == 20

(* ---------------- bounds of the model ---------------------------------- *)
MaxClips == 2
MaxOverlays == 1
MaxBatchLen == 2
MaxStart == 50
MaxDuration == 300
MaxPlacement == 300
MaxDownloads == 1
MaxCaptionJobs == 1
MaxTimers == 3
MaxWrites == 2
MaxClock == 3
MaxProjects == 2
MaxRestoreJobs == 2
MaxRequests == 2
MaxItems == 2
MaxStacked == 2
MaxOverlappingJobs == 2

(* ---------------- inputs drawn by the environment ---------------------- *)
\* decodable lengths of the imported video / audio files; 54 is not a
\* multiple of the time step, 0 stands for a non-finite element.duration
MediaFiles ==
  { [type |-> "video", dur |-> 54],
    [type |-> "video", dur |-> 100],
    [type |-> "audio", dur |-> 100],
    [type |-> "image", dur |-> 0],
    [type |-> "text",  dur |-> 0] }
\* pointer displacements clientX - pointerStartX of a pointermove, in pixels
DragPixels == {-30, 30}
\* numbers typed into the inspector fields
InspectorValues == {-10, 33, 400}
\* positions asked of seekTo by the slider / timeline scrub
SeekTimes == {-100, 50, 100000}
\* real time elapsed between two animation frames
FrameDeltas == {50, 200}
\* what a playing media element moves ahead between two events
MediaSteps == {30, 70}
DragModes == {"move", "trim-left", "trim-right"}
ClipFields == {"start", "duration", "sourceOffset"}
OverlayFields == {"start", "duration"}

VARIABLES
  clips,                 \* clips.value: sequence of clip records
  overlays,              \* overlays.value: sequence of overlay records
  selectedClipId,        \* 0 stands for null
  selectedOverlayId,     \* 0 stands for null
  dragState,             \* NoDrag or the DragState record
  currentTime,
  isPlaying,
  playbackLastTimestamp, \* 0, or 1 for "a previous frame timestamp is kept"
  playbackRaf,           \* TRUE while a stepPlayback frame is requested
  playing,               \* ids of the preview media elements that are playing
  lastSync,              \* "none", or the kind of the last syncPreviewMedia
  statusMessage,
  importPc,              \* await point importMedia is suspended at, or "idle"
  importFiles,           \* selectedFiles of the running batch
  importIdx,             \* position of the for-loop in importFiles
  importDuration,        \* the local `duration` of the file being ingested
  isExportingMp4,
  mp4Stage,
  exportProgress,
  exportPc,              \* await point exportMp4 is suspended at, or "idle"
  exportElapsed,         \* elapsed time the render frame loop last measured
  recorderState,         \* MediaRecorder.state
  recorderFailed,        \* the recorder's `finished` promise is rejected
  downloads,             \* number of files handed to downloadBlob
  activeExports,         \* exportMp4 invocations that passed the entry guard and have not ended
  exportRefused,         \* why the last refused exportMp4 returned at its guard
  requestSent,           \* fetch('/api/export-mp4') was called by the current export
  exportError,           \* the error exportMp4's catch block last reported
  mediaTime,             \* element.currentTime of the preview element of each video and audio clip
  captions,              \* captions.value: sequence of cues [start, end, text]
  isGeneratingCaptions,  \* isGeneratingCaptions.value
  captionJobs,           \* generateCaptions invocations in flight: [pc, source]
  captionStyleId,        \* captionStyleId.value
  hasRestoredDraft,
  restorePc,             \* await point restoreDraft is suspended at, or "done"
  restoreProject,        \* the local `project` of restoreDraft
  restoreIdx,            \* position of its for-loop in project.clips
  restored,              \* the local `restored` of restoreDraft
  draftSaveTimeout,      \* 0 stands for null, else the id setTimeout returned
  pendingTimers,         \* ids of the draft-save timers that are armed
  storedProject,         \* the record of the projects store, or NoProject
  storedFiles,           \* fileIds that have a record in the files store
  now,                   \* the value Date.now() returns
  pendingWrites,         \* putProject transactions that are open, oldest first
  registered,            \* clip ids in visualVideoRefs / audioRefs
  elementPlaying,        \* ids of the preview media elements that are not paused
  currentView,           \* multi-project editor: 'projects' or 'editor'
  currentProjectId,      \* multi-project editor: id of the open project, 0 for null
  isProjectReady,        \* multi-project editor: the gate of watch and saveDraft
  storedProjects,        \* multi-project editor: the records of the projects store
  restoreJobs,           \* multi-project editor: the calls of restoreDraft that run
  requests,              \* export-mp4 endpoint: the handler runs, one per request
  tempDirs,              \* export-mp4 endpoint: the temporary directories on disk
  historyRun,            \* history endpoint: the handler run
  upstream,              \* history endpoint: what the upstream API has served so far
  userActive             \* FALSE once the user issues no further event

tlVars == <<clips, overlays, selectedClipId, selectedOverlayId, dragState>>
imVars == <<importPc, importFiles, importIdx, importDuration>>
exVars == <<isExportingMp4, mp4Stage, exportProgress, exportPc, exportElapsed,
            recorderState, recorderFailed, downloads, activeExports, exportRefused,
            requestSent, exportError>>
prVars == <<mediaTime>>
cpVars == <<captions, isGeneratingCaptions, captionJobs>>
drVars == <<captionStyleId, hasRestoredDraft, restorePc, restoreProject, restoreIdx, restored,
            draftSaveTimeout, pendingTimers, storedProject, storedFiles>>
svVars == <<now, pendingWrites>>
elVars == <<registered, elementPlaying>>
pjVars == <<currentView, currentProjectId, isProjectReady, storedProjects, restoreJobs>>
srVars == <<requests, tempDirs>>
hsVars == <<historyRun, upstream>>
extVars == <<prVars, cpVars, drVars, svVars, elVars, pjVars, srVars, hsVars>>
pbVars == <<currentTime, isPlaying, playbackLastTimestamp, playbackRaf, playing, lastSync>>

NoProject == [id |-> "none"]

\* a run of the history endpoint that has not started: page is the loop
\* counter, cursor the start_after_history_item_id of the request in flight
\* (0: none), status the HTTP status of the answer (0: none yet)
NoHistoryRun == [pc |-> "none", page |-> 0, history |-> <<>>,
                 startAfterHistoryItemId |-> 0, cursor |-> 0, fetches |-> 0,
                 status |-> 0, body |-> <<>>]

\* the upstream API: the items it has served, in the order of the requests,
\* and the last_history_item_id of the page served last (0: none)
NoUpstream == [served |-> <<>>, last |-> 0]

\* a handler run of the export-mp4 endpoint that has not started
NoRequest == [pc |-> "none", body |-> "none", tempDir |-> 0, spawned |-> FALSE,
              code |-> "none", outcome |-> 0, response |-> 0]

NoDrag == [clipId |-> 0, mode |-> "none", initialStart |-> 0,
           initialDuration |-> 0, initialSourceOffset |-> 0]

(* ---------------- helpers ---------------------------------------------- *)
Max(a, b) == IF a >= b THEN a ELSE b
Min(a, b) == IF a <= b THEN a ELSE b

\* Math.max(...list) over a non-empty sequence of numbers
RECURSIVE MathMax(_)
MathMax(s) == IF Len(s) = 1 THEN s[1] ELSE Max(s[1], MathMax(Tail(s)))

Ends(s) == [i \in 1..Len(s) |-> s[i].start + s[i].duration]

inRange(time, start, duration) == time >= start /\ time < start + duration

\* Math.round(value * 20) / 20 on a value in centiseconds (round half up)
toStepTime(value) == TIME_STEP * ((2 * value + TIME_STEP) \div (2 * TIME_STEP))

\* toStepTime((event.clientX - pointerStartX) / PX_PER_SECOND) for a pixel delta
PointerDeltaSec(dx) ==
  TIME_STEP * ((2 * dx * STEPS_PER_SECOND + PX_PER_SECOND) \div (2 * PX_PER_SECOND))

\* the clip track alone, as if overlays did not extend the project
ProjectDurationOf_ClipsOnly(cs, os) ==
  IF Len(cs) > 0 THEN MathMax(Ends(cs)) ELSE 0

ProjectDurationOf(cs, os) ==
  LET clipEnd == IF Len(cs) > 0 THEN MathMax(Ends(cs)) ELSE 0
      overlayEnd == IF Len(os) > 0 THEN MathMax(Ends(os)) ELSE 0
  IN Max(clipEnd, overlayEnd)

projectDuration == ProjectDurationOf(clips, overlays)

IsVisual(c) == c.kind = "video" \/ c.kind = "image"
IsAudio(c) == c.kind = "audio"

\* one track per kind, as if images did not share the track of the videos
getTrackEndOf_PerKind(cs, kind) ==
  LET OfKind(c) == c.kind = kind
      selected == SelectSeq(cs, OfKind)
  IN IF Len(selected) = 0 THEN 0 ELSE MathMax(Ends(selected))

getTrackEndOf(cs, kind) ==
  LET selected == IF kind = "audio" THEN SelectSeq(cs, IsAudio)
                  ELSE SelectSeq(cs, IsVisual)
  IN IF Len(selected) = 0 THEN 0 ELSE MathMax(Ends(selected))

ClipIds == {clips[i].id : i \in 1..Len(clips)}
OverlayIds == {overlays[i].id : i \in 1..Len(overlays)}
ClipIndex(id) == CHOOSE i \in 1..Len(clips) : clips[i].id = id
OverlayIndex(id) == CHOOSE i \in 1..Len(overlays) : overlays[i].id = id
\* the part of the unbounded timeline the model explores
WithinBounds(item) == item.start <= MaxStart /\ item.duration <= MaxDuration
RemoveAt(s, i) == SubSeq(s, 1, i - 1) \o SubSeq(s, i + 1, Len(s))

\* crypto.randomUUID(): an id no live reference holds
FreshClipId ==
  CHOOSE i \in 1..(MaxClips + 3) :
    i \notin ClipIds \cup {selectedClipId, dragState.clipId}
FreshOverlayId ==
  CHOOSE i \in 1..(MaxOverlays + 2) : i \notin OverlayIds \cup {selectedOverlayId}

\* the elements syncPreviewMedia leaves playing: video and audio clips whose
\* interval contains the timeline time, while the clock is playing
SyncPlaying(cs, time, play) ==
  {cs[i].id : i \in {j \in 1..Len(cs) :
      /\ cs[j].kind # "image"
      /\ inRange(time, cs[j].start, cs[j].duration)
      /\ play}}
SyncKind(forceSeek) == IF forceSeek THEN "forced" ELSE "soft"

(* ---------------- initial state ---------------------------------------- *)
Init ==
  /\ clips = <<>>
  /\ overlays = <<>>
  /\ selectedClipId = 0
  /\ selectedOverlayId = 0
  /\ dragState = NoDrag
  /\ currentTime = 0
  /\ isPlaying = FALSE
  /\ playbackLastTimestamp = 0
  /\ playbackRaf = FALSE
  /\ playing = {}
  /\ lastSync = "none"
  /\ statusMessage = "Import videos, photos and audio to start editing."
  /\ importPc = "idle"
  /\ importFiles = <<>>
  /\ importIdx = 0
  /\ importDuration = 0
  /\ isExportingMp4 = FALSE
  /\ mp4Stage = "idle"
  /\ exportProgress = 0
  /\ exportPc = "idle"
  /\ exportElapsed = 0
  /\ recorderState = "inactive"
  /\ recorderFailed = FALSE
  /\ downloads = 0
  /\ activeExports = 0
  /\ exportRefused = "never"
  /\ requestSent = FALSE
  /\ exportError = "none"
  /\ mediaTime = <<>>
  /\ captions = <<>>
  /\ isGeneratingCaptions = FALSE
  /\ captionJobs = <<>>
  /\ captionStyleId = "capcut"
  /\ hasRestoredDraft = FALSE
  /\ restorePc = "getProject"
  /\ restoreProject = NoProject
  /\ restoreIdx = 0
  /\ restored = <<>>
  /\ draftSaveTimeout = 0
  /\ pendingTimers = {}
  /\ storedProject = NoProject
  /\ storedFiles = {}
  /\ now = 1
  /\ pendingWrites = <<>>
  /\ registered = {}
  /\ elementPlaying = {}
  /\ currentView = "projects"
  /\ currentProjectId = 0
  /\ isProjectReady = FALSE
  /\ storedProjects = [p \in 1..MaxProjects |-> NoProject]
  /\ restoreJobs = <<>>
  /\ requests = [r \in 1..MaxRequests |-> NoRequest]
  /\ tempDirs = {}
  /\ historyRun = NoHistoryRun
  /\ upstream = NoUpstream
  /\ userActive = TRUE

(* ---------------- selection and drag gestures -------------------------- *)
SelectClip(id) ==
  /\ userActive
  /\ id \in ClipIds
  /\ selectedOverlayId' = 0
  /\ selectedClipId' = id
  /\ UNCHANGED <<clips, overlays, dragState, pbVars, statusMessage, imVars, exVars, userActive>>

SelectOverlay(id) ==
  /\ userActive
  /\ id \in OverlayIds
  /\ selectedClipId' = 0
  /\ selectedOverlayId' = id
  /\ UNCHANGED <<clips, overlays, dragState, pbVars, statusMessage, imVars, exVars, userActive>>

StartClipDrag(mode, id) ==
  /\ userActive
  /\ id \in ClipIds
  /\ selectedOverlayId' = 0
  /\ selectedClipId' = id
  /\ dragState' = [clipId |-> id, mode |-> mode,
                   initialStart |-> clips[ClipIndex(id)].start,
                   initialDuration |-> clips[ClipIndex(id)].duration,
                   initialSourceOffset |-> clips[ClipIndex(id)].sourceOffset]
  /\ UNCHANGED <<clips, overlays, pbVars, statusMessage, imVars, exVars, userActive>>

MoveClip(clip, ds, deltaSec) ==
  [clip EXCEPT !.start = Max(0, toStepTime(ds.initialStart + deltaSec))]

\* trim-right without the bound by the remaining source length
TrimRightClip_Unbounded(clip, ds, deltaSec) ==
  [clip EXCEPT !.duration =
     Min(IMAGE_MAX_DURATION, Max(MIN_CLIP_DURATION, toStepTime(ds.initialDuration + deltaSec)))]

TrimRightClip(clip, ds, deltaSec) ==
  LET maxDur == IF clip.kind = "image" THEN IMAGE_MAX_DURATION
                ELSE Max(MIN_CLIP_DURATION, clip.sourceDuration - clip.sourceOffset)
  IN [clip EXCEPT !.duration =
        Min(maxDur, Max(MIN_CLIP_DURATION, toStepTime(ds.initialDuration + deltaSec)))]

TrimLeftImage(clip, ds, deltaSec) ==
  LET nextStart == Max(0, toStepTime(ds.initialStart + deltaSec))
      startShift == nextStart - ds.initialStart
  IN [clip EXCEPT !.start = nextStart,
                  !.duration = Max(MIN_CLIP_DURATION, toStepTime(ds.initialDuration - startShift))]

TrimLeftClip(clip, ds, deltaSec) ==
  LET nextOffset == Max(0, Min(ds.initialSourceOffset + deltaSec,
                               clip.sourceDuration - MIN_CLIP_DURATION))
      sourceDelta == nextOffset - ds.initialSourceOffset
  IN [clip EXCEPT !.sourceOffset = toStepTime(nextOffset),
                  !.start = Max(0, toStepTime(ds.initialStart + sourceDelta)),
                  !.duration = Max(MIN_CLIP_DURATION, toStepTime(ds.initialDuration - sourceDelta))]

DragUpdate(clip, ds, dx) ==
  LET deltaSec == PointerDeltaSec(dx)
  IN IF ds.mode = "move" THEN MoveClip(clip, ds, deltaSec)
     ELSE IF ds.mode = "trim-right" THEN TrimRightClip(clip, ds, deltaSec)
     ELSE IF clip.kind = "image" THEN TrimLeftImage(clip, ds, deltaSec)
     ELSE TrimLeftClip(clip, ds, deltaSec)

OnPointerMove(dx) ==
  /\ userActive
  /\ IF dragState = NoDrag
     THEN UNCHANGED <<clips, dragState>>
     ELSE IF dragState.clipId \notin ClipIds
     THEN /\ dragState' = NoDrag
          /\ UNCHANGED clips
     ELSE LET i == ClipIndex(dragState.clipId)
              next == DragUpdate(clips[i], dragState, dx)
          IN /\ WithinBounds(next)
             /\ clips' = [clips EXCEPT ![i] = next]
             /\ UNCHANGED dragState
  /\ UNCHANGED <<overlays, selectedClipId, selectedOverlayId, pbVars, statusMessage, imVars, exVars, userActive>>

OnPointerUp ==
  /\ userActive
  /\ IF dragState = NoDrag
     THEN UNCHANGED <<dragState, playing, lastSync>>
     ELSE /\ dragState' = NoDrag
          /\ playing' = SyncPlaying(clips, currentTime, isPlaying)
          /\ lastSync' = SyncKind(TRUE)
  /\ UNCHANGED <<clips, overlays, selectedClipId, selectedOverlayId, currentTime,
                 isPlaying, playbackLastTimestamp, playbackRaf, statusMessage, imVars, exVars, userActive>>

(* ---------------- inspector edits and removal -------------------------- *)
UpdateClipField(clip, field, parsed) ==
  IF field = "start" THEN [clip EXCEPT !.start = Max(0, parsed)]
  ELSE IF field = "duration" THEN
    LET maxDuration == IF clip.kind = "image" THEN Max(MIN_CLIP_DURATION, parsed)
                       ELSE Max(MIN_CLIP_DURATION, clip.sourceDuration - clip.sourceOffset)
    IN [clip EXCEPT !.duration = Min(Max(MIN_CLIP_DURATION, parsed), maxDuration)]
  ELSE IF field = "volume" THEN
    LET volume == Max(0, Min(VOLUME_MAX, parsed))
    IN IF clip.kind = "video"
       THEN [clip EXCEPT !.volume = volume, !.muted = (volume = 0),
                         !.previousVolume = IF volume > 0 THEN volume ELSE @]
       ELSE [clip EXCEPT !.volume = volume]
  ELSE IF clip.kind = "image" THEN [clip EXCEPT !.sourceOffset = 0]
  ELSE
    LET nextOffset == Max(0, Min(parsed, clip.sourceDuration - MIN_CLIP_DURATION))
    IN [clip EXCEPT !.sourceOffset = nextOffset,
                    !.duration = Min(clip.duration,
                                     Max(MIN_CLIP_DURATION, clip.sourceDuration - nextOffset))]

UpdateSelectedClipField(field, parsed, finite) ==
  /\ userActive
  /\ IF selectedClipId \notin ClipIds \/ ~finite
     THEN UNCHANGED <<clips, playing, lastSync>>
     ELSE LET i == ClipIndex(selectedClipId)
              next == UpdateClipField(clips[i], field, parsed)
          IN /\ WithinBounds(next)
             /\ clips' = [clips EXCEPT ![i] = next]
             /\ IF field = "sourceOffset" /\ clips[i].kind = "image"
                THEN UNCHANGED <<playing, lastSync>>
                ELSE /\ playing' = SyncPlaying(clips', currentTime, isPlaying)
                     /\ lastSync' = SyncKind(TRUE)
  /\ UNCHANGED <<overlays, selectedClipId, selectedOverlayId, dragState, currentTime,
                 isPlaying, playbackLastTimestamp, playbackRaf, statusMessage, imVars, exVars, userActive>>

\* a mute button that leaves a silent clip silent when it unmutes it
toggleMute_KeepsSilence(clip) ==
  IF clip.muted THEN [clip EXCEPT !.muted = FALSE]
  ELSE [clip EXCEPT !.previousVolume = IF clip.volume > 0 THEN clip.volume ELSE @,
                    !.muted = TRUE]

\* what toggleSelectedVideoMute does to the selected video clip
toggleMute(clip) ==
  IF clip.muted
  THEN [clip EXCEPT !.muted = FALSE,
                    !.volume = IF clip.volume <= 0
                               THEN Max(UNMUTE_MIN_VOLUME,
                                        IF clip.previousVolume # 0 THEN clip.previousVolume
                                        ELSE DEFAULT_VOLUME)
                               ELSE @]
  ELSE [clip EXCEPT !.previousVolume = IF clip.volume > 0 THEN clip.volume ELSE @,
                    !.muted = TRUE]

ToggleSelectedVideoMute ==
  /\ userActive
  /\ IF selectedClipId \notin ClipIds
     THEN UNCHANGED <<clips, playing, lastSync>>
     ELSE LET i == ClipIndex(selectedClipId)
          IN IF clips[i].kind # "video"
             THEN UNCHANGED <<clips, playing, lastSync>>
             ELSE /\ clips' = [clips EXCEPT ![i] = toggleMute(clips[i])]
                  /\ playing' = SyncPlaying(clips', currentTime, isPlaying)
                  /\ lastSync' = SyncKind(TRUE)
  /\ UNCHANGED <<overlays, selectedClipId, selectedOverlayId, dragState, currentTime,
                 isPlaying, playbackLastTimestamp, playbackRaf, statusMessage, imVars, exVars, userActive>>

\* the volume syncPreviewMedia assigns to a preview element, in hundredths
getOutputVolume(clip) ==
  IF clip.kind = "video" /\ clip.muted THEN 0 ELSE clip.volume

RemoveClip ==
  /\ userActive
  /\ selectedClipId \in ClipIds
  /\ selectedClipId' = 0
  /\ clips' = RemoveAt(clips, ClipIndex(selectedClipId))
  /\ statusMessage' = "Clip removed."
  /\ playing' = SyncPlaying(clips', currentTime, isPlaying)
  /\ lastSync' = SyncKind(TRUE)
  /\ UNCHANGED <<overlays, selectedOverlayId, dragState, currentTime, isPlaying,
                 playbackLastTimestamp, playbackRaf, imVars, exVars, userActive>>

\* addOverlay on a timeline that holds fewer than `limit` overlays
AddOverlayWithin(kind, limit) ==
  /\ userActive
  /\ Len(overlays) < limit
  /\ currentTime <= MaxPlacement
  /\ overlays' = Append(overlays, [id |-> FreshOverlayId, kind |-> kind,
                                   start |-> currentTime,
                                   duration |-> OVERLAY_DEFAULT_DURATION])
  /\ selectedClipId' = 0
  /\ selectedOverlayId' = FreshOverlayId
  /\ statusMessage' = IF kind = "title" THEN "Title overlay added."
                      ELSE "Sticker overlay added."
  /\ UNCHANGED <<clips, dragState, pbVars, imVars, exVars, userActive>>

AddOverlay(kind) == AddOverlayWithin(kind, MaxOverlays)

UpdateOverlayField(item, field, parsed) ==
  IF field = "start" THEN [item EXCEPT !.start = Max(0, parsed)]
  ELSE [item EXCEPT !.duration = Max(OVERLAY_MIN_DURATION, parsed)]

UpdateSelectedOverlayField(field, parsed, finite) ==
  /\ userActive
  /\ IF selectedOverlayId \notin OverlayIds \/ ~finite
     THEN UNCHANGED overlays
     ELSE LET i == OverlayIndex(selectedOverlayId)
              next == UpdateOverlayField(overlays[i], field, parsed)
          IN /\ WithinBounds(next)
             /\ overlays' = [overlays EXCEPT ![i] = next]
  /\ UNCHANGED <<clips, selectedClipId, selectedOverlayId, dragState, pbVars,
                 statusMessage, imVars, exVars, userActive>>

RemoveOverlay ==
  /\ userActive
  /\ selectedOverlayId \in OverlayIds
  /\ selectedOverlayId' = 0
  /\ overlays' = RemoveAt(overlays, OverlayIndex(selectedOverlayId))
  /\ statusMessage' = "Overlay removed."
  /\ UNCHANGED <<clips, selectedClipId, dragState, pbVars, imVars, exVars, userActive>>

(* ---------------- playback clock --------------------------------------- *)
\* stopPlayback(): the five playback variables after it ran on clips cs at time t
StopPlayback(cs, t) ==
  /\ isPlaying' = FALSE
  /\ playbackLastTimestamp' = 0
  /\ playbackRaf' = FALSE
  /\ playing' = SyncPlaying(cs, t, FALSE)
  /\ lastSync' = SyncKind(TRUE)

TogglePlayback ==
  /\ userActive
  /\ IF projectDuration = 0
     THEN UNCHANGED <<isPlaying, playbackLastTimestamp, playbackRaf, playing, lastSync>>
     ELSE IF isPlaying
     THEN StopPlayback(clips, currentTime)
     ELSE /\ isPlaying' = TRUE
          /\ playbackLastTimestamp' = 0
          /\ playing' = SyncPlaying(clips, currentTime, TRUE)
          /\ lastSync' = SyncKind(TRUE)
          /\ playbackRaf' = TRUE
  /\ UNCHANGED <<tlVars, currentTime, statusMessage, imVars, exVars, userActive>>

\* a frame driver that clamps the clock but never leaves the playing state
StepPlayback_NeverStops(elapsed) ==
  /\ playbackRaf
  /\ isPlaying
  /\ currentTime' = Min(projectDuration,
       currentTime + (IF playbackLastTimestamp = 0 THEN 0 ELSE elapsed))
  /\ playbackLastTimestamp' = 1
  /\ playing' = SyncPlaying(clips, currentTime', TRUE)
  /\ lastSync' = SyncKind(FALSE)
  /\ UNCHANGED <<tlVars, isPlaying, playbackRaf, statusMessage, imVars, exVars, userActive>>

StepPlayback(elapsed) ==
  /\ playbackRaf
  /\ IF ~isPlaying
     THEN /\ playbackRaf' = FALSE
          /\ UNCHANGED <<currentTime, isPlaying, playbackLastTimestamp, playing, lastSync>>
     ELSE LET delta == IF playbackLastTimestamp = 0 THEN 0 ELSE elapsed
          IN /\ currentTime' = Min(projectDuration, currentTime + delta)
             /\ IF currentTime' >= projectDuration
                THEN StopPlayback(clips, currentTime')
                ELSE /\ playbackLastTimestamp' = 1
                     /\ playing' = SyncPlaying(clips, currentTime', TRUE)
                     /\ lastSync' = SyncKind(FALSE)
                     /\ playbackRaf' = TRUE
                     /\ UNCHANGED isPlaying
  /\ UNCHANGED <<tlVars, statusMessage, imVars, exVars, userActive>>

SeekTo(time) ==
  /\ userActive
  /\ currentTime' = Min(projectDuration, Max(0, time))
  /\ playing' = SyncPlaying(clips, currentTime', isPlaying)
  /\ lastSync' = SyncKind(TRUE)
  /\ UNCHANGED <<tlVars, isPlaying, playbackLastTimestamp, playbackRaf, statusMessage, imVars, exVars, userActive>>

SeekBy(delta) == SeekTo(currentTime + delta)

\* the user stops interacting with the page: no user event after this
UserLeaves ==
  /\ userActive
  /\ userActive' = FALSE
  /\ UNCHANGED <<tlVars, pbVars, statusMessage, imVars, exVars>>

(* ---------------- media import ----------------------------------------- *)
Supported(file) == file.type \in {"video", "image", "audio"}

\* the for-loop runs on from position i to the next file it has to await on
RECURSIVE NextSupported(_, _)
NextSupported(files, i) ==
  IF i > Len(files) THEN i
  ELSE IF Supported(files[i]) THEN i
  ELSE NextSupported(files, i + 1)

NumSupported(files) == Cardinality({i \in 1..Len(files) : Supported(files[i])})

\* importMedia resumed at loop position i: up to its next await
ImportRunTo(files, i) ==
  /\ importIdx' = i
  /\ IF i > Len(files)
     THEN /\ importPc' = "save"
          /\ importDuration' = 0
          /\ statusMessage' = "Imported file(s)."
     ELSE /\ importPc' = IF files[i].type = "image" THEN "put" ELSE "probe"
          /\ importDuration' = IF files[i].type = "image" THEN IMAGE_DEFAULT_DURATION ELSE 0
          /\ UNCHANGED statusMessage

ImportMedia(files, room) ==
  /\ userActive
  /\ importPc = "idle"
  /\ Len(clips) + NumSupported(files) <= room
  /\ IF files = <<>>
     THEN UNCHANGED <<imVars, statusMessage>>
     ELSE /\ importFiles' = files
          /\ importIdx' = NextSupported(files, 1)
          /\ IF importIdx' > Len(files)
             THEN /\ importPc' = "save"
                  /\ importDuration' = 0
                  /\ statusMessage' = "Imported file(s)."
             ELSE /\ importPc' = IF files[importIdx'].type = "image" THEN "put" ELSE "probe"
                  /\ importDuration' = IF files[importIdx'].type = "image"
                                       THEN IMAGE_DEFAULT_DURATION ELSE 0
                  /\ statusMessage' = "Importing media files..."
  /\ UNCHANGED <<tlVars, pbVars, exVars, userActive>>

\* getMediaDuration resolves with element.duration, or 0 when it is not finite
ImportProbeResolves ==
  /\ importPc = "probe"
  /\ importDuration' = importFiles[importIdx].dur
  /\ importPc' = "put"
  /\ UNCHANGED <<tlVars, pbVars, statusMessage, importFiles, importIdx, exVars, userActive>>

safeDurationOf(duration) ==
  Max(MIN_CLIP_DURATION, IF duration = 0 THEN IMAGE_DEFAULT_DURATION ELSE duration)

NewClip(cs, id, kind, duration) ==
  [id |-> id, kind |-> kind,
   start |-> getTrackEndOf(cs, kind),
   duration |-> safeDurationOf(duration),
   sourceDuration |-> safeDurationOf(duration),
   sourceOffset |-> 0,
   volume |-> DEFAULT_VOLUME, muted |-> FALSE, previousVolume |-> DEFAULT_VOLUME]

\* putFile resolves: the clip is pushed and the loop goes on to the next file
ImportPutResolves ==
  /\ importPc = "put"
  /\ getTrackEndOf(clips, importFiles[importIdx].type) <= MaxPlacement
  /\ clips' = Append(clips, NewClip(clips, FreshClipId, importFiles[importIdx].type,
                                    importDuration))
  /\ ImportRunTo(importFiles, NextSupported(importFiles, importIdx + 1))
  /\ UNCHANGED <<overlays, selectedClipId, selectedOverlayId, dragState, pbVars,
                 importFiles, exVars, userActive>>

\* saveDraft resolves: syncPreviewMedia(true) ends the handler
ImportSaveResolves ==
  /\ importPc = "save"
  /\ importPc' = "idle"
  /\ importFiles' = <<>>
  /\ importIdx' = 0
  /\ playing' = SyncPlaying(clips, currentTime, isPlaying)
  /\ lastSync' = SyncKind(TRUE)
  /\ UNCHANGED <<tlVars, currentTime, isPlaying, playbackLastTimestamp, playbackRaf,
                 statusMessage, importDuration, exVars, userActive>>

\* the awaited probe, blob write or draft write rejects: importMedia throws
ImportAwaitRejects ==
  /\ importPc \in {"probe", "put", "save"}
  /\ importPc' = "idle"
  /\ importFiles' = <<>>
  /\ importIdx' = 0
  /\ importDuration' = 0
  /\ UNCHANGED <<tlVars, pbVars, statusMessage, exVars, userActive>>

(* ---------------- MP4 export ------------------------------------------- *)
\* the catch block alone, as if exportMp4 had no finally block
ExportFailed_NoFinally ==
  /\ statusMessage' = "MP4 export failed"
  /\ exportPc' = "idle"
  /\ activeExports' = activeExports - 1
  /\ UNCHANGED <<mp4Stage, isExportingMp4>>

\* exportMp4's catch and finally blocks
ExportFailed ==
  /\ statusMessage' = "MP4 export failed"
  /\ mp4Stage' = "idle"
  /\ isExportingMp4' = FALSE
  /\ exportPc' = "idle"
  /\ activeExports' = activeExports - 1

\* exportMp4 without the isExportingMp4 test of its entry guard
ExportMp4_NoBusyTest ==
  /\ userActive
  /\ IF projectDuration = 0
     THEN /\ exportRefused' = "empty"
          /\ UNCHANGED <<pbVars, statusMessage, isExportingMp4, mp4Stage, exportProgress,
                         exportPc, exportElapsed, recorderState, recorderFailed,
                         downloads, activeExports, requestSent, exportError>>
     ELSE /\ downloads < MaxDownloads
          /\ isExportingMp4' = TRUE
          /\ mp4Stage' = "render"
          /\ exportProgress' = 0
          /\ statusMessage' = "Rendering timeline for MP4 conversion..."
          /\ StopPlayback(clips, currentTime)
          /\ exportPc' = "setup"
          /\ exportElapsed' = 0
          /\ recorderFailed' = FALSE
          /\ activeExports' = activeExports + 1
          /\ UNCHANGED <<currentTime, recorderState, downloads, exportRefused>>
          /\ requestSent' = FALSE
          /\ exportError' = "none"
  /\ UNCHANGED <<tlVars, imVars, userActive>>

ExportMp4 ==
  /\ userActive
  /\ IF isExportingMp4 \/ projectDuration = 0
     THEN /\ exportRefused' = IF isExportingMp4 THEN "exporting" ELSE "empty"
          /\ UNCHANGED <<pbVars, statusMessage, isExportingMp4, mp4Stage, exportProgress,
                         exportPc, exportElapsed, recorderState, recorderFailed,
                         downloads, activeExports, requestSent, exportError>>
     ELSE /\ downloads < MaxDownloads
          /\ isExportingMp4' = TRUE
          /\ mp4Stage' = "render"
          /\ exportProgress' = 0
          /\ statusMessage' = "Rendering timeline for MP4 conversion..."
          /\ StopPlayback(clips, currentTime)
          /\ exportPc' = "setup"
          /\ exportElapsed' = 0
          /\ recorderFailed' = FALSE
          /\ activeExports' = activeExports + 1
          /\ UNCHANGED <<currentTime, recorderState, downloads, exportRefused>>
          /\ requestSent' = FALSE
          /\ exportError' = "none"
  /\ UNCHANGED <<tlVars, imVars, userActive>>

\* renderProjectToWebm throws before the recorder is started (no canvas context,
\* image.decode() rejects, MediaRecorder cannot be constructed)
ExportSetupThrows ==
  /\ exportPc = "setup"
  /\ ExportFailed
  /\ UNCHANGED <<tlVars, pbVars, imVars, exportProgress, exportElapsed, recorderState,
                 recorderFailed, downloads, exportRefused, requestSent, userActive>>
  /\ exportError' = "render setup failed"

\* recorder.stop(), resolve(): the frame loop ends
StopRecorder ==
  /\ recorderState' = "inactive"
  /\ exportPc' = "finish"
  /\ UNCHANGED exportProgress

\* recorder.start(200) and the first call of frame(), at elapsed 0
ExportSetupDone ==
  /\ exportPc = "setup"
  /\ exportElapsed' = 0
  /\ IF 0 >= projectDuration
     THEN StopRecorder
     ELSE /\ recorderState' = "recording"
          /\ exportPc' = "record"
          /\ exportProgress' = Min(99, (0 * 100) \div projectDuration)
  /\ UNCHANGED <<tlVars, pbVars, imVars, statusMessage, isExportingMp4, mp4Stage,
                 recorderFailed, downloads, activeExports, exportRefused, requestSent,
                 exportError, userActive>>

\* one later call of frame(), dt after the previous one
ExportFrame(dt) ==
  /\ exportPc = "record"
  /\ exportElapsed' = exportElapsed + dt
  /\ IF exportElapsed' >= projectDuration
     THEN \/ StopRecorder
          \/ \* recorder.stop() on a recorder an error inactivated may throw:
             \* resolve() is then never called
             /\ recorderFailed
             /\ exportPc' = "stuck"
             /\ UNCHANGED <<recorderState, exportProgress>>
     ELSE /\ exportProgress' = Min(99, (exportElapsed' * 100) \div projectDuration)
          /\ UNCHANGED <<exportPc, recorderState>>
  /\ UNCHANGED <<tlVars, pbVars, imVars, statusMessage, isExportingMp4, mp4Stage,
                 recorderFailed, downloads, activeExports, exportRefused, requestSent,
                 exportError, userActive>>

\* recorder.onerror: `finished` is rejected
ExportRecorderError ==
  /\ exportPc = "record"
  /\ ~recorderFailed
  /\ recorderFailed' = TRUE
  /\ recorderState' = "inactive"
  /\ UNCHANGED <<tlVars, pbVars, imVars, statusMessage, isExportingMp4, mp4Stage,
                 exportProgress, exportPc, exportElapsed, downloads, activeExports,
                 exportRefused, requestSent, exportError, userActive>>

\* `await finished` throws the recorder's error
ExportRecordingFails ==
  /\ exportPc = "finish"
  /\ recorderFailed
  /\ ExportFailed
  /\ UNCHANGED <<tlVars, pbVars, imVars, exportProgress, exportElapsed, recorderState,
                 recorderFailed, downloads, exportRefused, requestSent, userActive>>
  /\ exportError' = "Recorder failed"

\* a conversion that sends its request before it looks at the size of the blob
ExportRenderSucceeds_RequestFirst ==
  /\ exportPc = "finish"
  /\ ~recorderFailed
  /\ exportProgress' = 100
  /\ mp4Stage' = "convert"
  /\ statusMessage' = "Converting to MP4 with local ffmpeg..."
  /\ \E size \in {"empty", "bytes"} :
        /\ exportPc' = IF size = "empty" THEN "reject-empty" ELSE "convert"
        /\ requestSent' = TRUE
  /\ UNCHANGED <<tlVars, pbVars, imVars, isExportingMp4, exportElapsed, recorderState,
                 recorderFailed, downloads, activeExports, exportRefused, exportError, userActive>>

\* renderProjectToWebm returns the recorded blob, empty or not: exportMp4 enters
\* its convert stage and calls convertWebmToMp4
ExportRenderSucceeds ==
  /\ exportPc = "finish"
  /\ ~recorderFailed
  /\ exportProgress' = 100
  /\ mp4Stage' = "convert"
  /\ statusMessage' = "Converting to MP4 with local ffmpeg..."
  /\ \E size \in {"empty", "bytes"} :
        /\ exportPc' = IF size = "empty" THEN "reject-empty" ELSE "convert"
        /\ requestSent' = (size = "bytes")
  /\ UNCHANGED <<tlVars, pbVars, imVars, isExportingMp4, exportElapsed, recorderState,
                 recorderFailed, downloads, activeExports, exportRefused, exportError, userActive>>

\* convertWebmToMp4 throws on a zero-byte blob before any request is sent
ExportEmptyBuffer ==
  /\ exportPc = "reject-empty"
  /\ ExportFailed
  /\ UNCHANGED <<tlVars, pbVars, imVars, exportProgress, exportElapsed, recorderState,
                 recorderFailed, downloads, exportRefused, requestSent, userActive>>
  /\ exportError' = "Rendered video buffer is empty. Please add at least one playable clip and retry."

\* the transcoder answers 2xx: the file is downloaded
ExportConvertSucceeds ==
  /\ exportPc = "convert"
  /\ downloads' = downloads + 1
  /\ statusMessage' = "MP4 export complete."
  /\ mp4Stage' = "idle"
  /\ isExportingMp4' = FALSE
  /\ exportPc' = "idle"
  /\ activeExports' = activeExports - 1
  /\ UNCHANGED <<tlVars, pbVars, imVars, exportProgress, exportElapsed, recorderState,
                 recorderFailed, exportRefused, requestSent, exportError, userActive>>

\* the transcoder answers non-2xx, the request fails or the 15 minute timer fires
ExportConvertFails ==
  /\ exportPc = "convert"
  /\ ExportFailed
  /\ UNCHANGED <<tlVars, pbVars, imVars, exportProgress, exportElapsed, recorderState,
                 recorderFailed, downloads, exportRefused, requestSent, userActive>>
  /\ exportError' = "Export API failed"

\* The answers of /api/export-mp4 that are not ok: the status, the body text,
\* whether the text parses as JSON, whether it parses to an object, and the
\* statusMessage and message fields of that object ("" when absent).
ErrorResponses ==
  { [status |-> 400, text |-> "{\"statusCode\":400,\"statusMessage\":\"Missing video payload\"}",
     json |-> TRUE, object |-> TRUE, statusMessage |-> "Missing video payload", message |-> ""],
    [status |-> 500, text |-> "{\"message\":\"ffmpeg exited with code 1\"}",
     json |-> TRUE, object |-> TRUE, statusMessage |-> "", message |-> "ffmpeg exited with code 1"],
    [status |-> 500, text |-> "{}",
     json |-> TRUE, object |-> TRUE, statusMessage |-> "", message |-> ""],
    [status |-> 500, text |-> "null",
     json |-> TRUE, object |-> FALSE, statusMessage |-> "", message |-> ""],
    [status |-> 502, text |-> "Bad Gateway",
     json |-> FALSE, object |-> FALSE, statusMessage |-> "", message |-> ""],
    [status |-> 504, text |-> "",
     json |-> FALSE, object |-> FALSE, statusMessage |-> "", message |-> ""] }

\* `Export API failed: ${response.status}`
ExportApiFailed(status) ==
  CASE status = 400 -> "Export API failed: 400"
    [] status = 500 -> "Export API failed: 500"
    [] status = 502 -> "Export API failed: 502"
    [] OTHER -> "Export API failed: 504"

\* the try block of the !response.ok branch: JSON.parse throws a SyntaxError,
\* the property access on null a TypeError, and after both the throw
\* statement throws the Error built from the parsed fields
TryParsedMessage(response) ==
  IF ~response.json THEN [threw |-> TRUE, message |-> "SyntaxError"]
  ELSE IF ~response.object THEN [threw |-> TRUE, message |-> "TypeError"]
  ELSE [threw |-> TRUE,
        message |-> IF response.statusMessage # "" THEN response.statusMessage
                    ELSE IF response.message # "" THEN response.message
                    ELSE ExportApiFailed(response.status)]

\* the message of the Error that leaves convertWebmToMp4: whatever the try
\* block threw is caught by `catch {`, which throws responseText || generic
convertErrorMessage(response) ==
  IF TryParsedMessage(response).threw
  THEN IF response.text # "" THEN response.text ELSE ExportApiFailed(response.status)
  ELSE "none"

\* the transcoder answers non-2xx with the given body
ExportApiAnswersError(response) ==
  /\ exportPc = "convert"
  /\ ExportFailed
  /\ UNCHANGED <<tlVars, pbVars, imVars, exportProgress, exportElapsed, recorderState,
                 recorderFailed, downloads, exportRefused, requestSent, userActive>>
  /\ exportError' = convertErrorMessage(response)

(* ---------------- preview media elements -------------------------------- *)
Abs(x) == IF x < 0 THEN -x ELSE x

\* timelineTime - clip.start + clip.sourceOffset
localTimeOf(clip, timelineTime) == timelineTime - clip.start + clip.sourceOffset

MediaIds(cs) == {cs[i].id : i \in {j \in 1..Len(cs) : cs[j].kind # "image"}}

\* the elements the template holds for the clips cs: one per video and audio
\* clip, a new element standing at position 0
ElementsOf(cs, mt) ==
  [id \in MediaIds(cs) |-> IF id \in DOMAIN mt THEN mt[id] ELSE 0]

\* a sync pass that only ever writes the position when it is forced
SyncElement_ForcedOnly(pos, localTime, forceSeek) ==
  IF forceSeek THEN localTime ELSE pos

\* if (forceSeek || Math.abs(element.currentTime - localTime) > 0.2)
\*   element.currentTime = localTime
SyncElement(pos, localTime, forceSeek) ==
  IF forceSeek \/ Abs(pos - localTime) > SYNC_TOLERANCE THEN localTime ELSE pos

\* syncPreviewMedia(forceSeek) on the elements: the positions it leaves
SyncPreviewMedia(cs, timelineTime, mt, forceSeek) ==
  [id \in MediaIds(cs) |->
     LET clip == cs[CHOOSE i \in 1..Len(cs) : cs[i].id = id]
         pos == ElementsOf(cs, mt)[id]
     IN IF inRange(timelineTime, clip.start, clip.duration)
        THEN SyncElement(pos, localTimeOf(clip, timelineTime), forceSeek)
        ELSE pos]

\* the handlers of the editor together with what they do to the elements
PreviewImportPutResolves ==
  ImportPutResolves /\ mediaTime' = ElementsOf(clips', mediaTime)

PreviewImportSaveResolves ==
  ImportSaveResolves /\ mediaTime' = SyncPreviewMedia(clips, currentTime, mediaTime, TRUE)

PreviewTogglePlayback ==
  /\ TogglePlayback
  /\ mediaTime' = IF projectDuration = 0 THEN mediaTime
                  ELSE SyncPreviewMedia(clips, currentTime, mediaTime, TRUE)

PreviewStepPlayback(elapsed) ==
  /\ StepPlayback(elapsed)
  /\ mediaTime' = IF ~isPlaying THEN mediaTime
                  ELSE SyncPreviewMedia(clips, currentTime', mediaTime,
                                        currentTime' >= projectDuration)

PreviewSeekTo(time) ==
  SeekTo(time) /\ mediaTime' = SyncPreviewMedia(clips, currentTime', mediaTime, TRUE)

\* an element that safePlay() started plays on by itself: its position moves
\* ahead by what it decoded, not by what the timeline clock measured
MediaAdvances(id, step) ==
  /\ id \in playing
  /\ id \in DOMAIN mediaTime
  /\ mediaTime[id] + step <= clips[ClipIndex(id)].sourceDuration
  /\ mediaTime' = [mediaTime EXCEPT ![id] = @ + step]
  /\ UNCHANGED <<tlVars, pbVars, statusMessage, imVars, exVars, userActive>>

(* ---------------- captions ---------------------------------------------- *)
\* Caption times are counted in ticks of 1/300 s, so that a span that is a
\* multiple of 0.2 s divides evenly among up to six words.  A text is a
\* sequence of atoms: the whitespace atom " " or a run of other characters.
\* A number that may fail Number.isFinite is a record [finite, value].
Num(v) == [finite |-> TRUE, value |-> v]
NotANumber == [finite |-> FALSE, value |-> 0]

IsSpace(atom) == atom = " "

\* text.replace(/\s+/g, ' '): runs of whitespace become one space
RECURSIVE collapseSpaces(_)
collapseSpaces(text) ==
  IF Len(text) <= 1 THEN text
  ELSE IF IsSpace(text[1]) /\ IsSpace(text[2]) THEN collapseSpaces(Tail(text))
  ELSE <<text[1]>> \o collapseSpaces(Tail(text))

\* String.prototype.trim on a text whose whitespace runs are single spaces
trim(text) ==
  LET from == IF Len(text) > 0 /\ IsSpace(text[1]) THEN 2 ELSE 1
      to == IF Len(text) > 0 /\ IsSpace(text[Len(text)]) THEN Len(text) - 1 ELSE Len(text)
  IN SubSeq(text, from, to)

normalizeCaptionText(text) == trim(collapseSpaces(text))

\* text.split(' ').filter(Boolean): the words of a text, each a sequence of atoms
RECURSIVE splitWords(_, _)
splitWords(text, word) ==
  IF text = <<>> THEN (IF word = <<>> THEN <<>> ELSE <<word>>)
  ELSE IF IsSpace(text[1])
       THEN (IF word = <<>> THEN <<>> ELSE <<word>>) \o splitWords(Tail(text), <<>>)
       ELSE splitWords(Tail(text), Append(word, text[1]))
wordsOf(text) == splitWords(text, <<>>)

\* words.forEach(...): the cues of the words of one chunk or stored cue
wordCues(words, safeStart, safeEnd) ==
  LET duration == Max(CUE_MIN_SPAN, safeEnd - safeStart)
      n == Len(words)
  IN [index \in 1..n |->
        LET start == safeStart + (duration * (index - 1)) \div n
            end == IF index = n THEN safeEnd
                   ELSE Min(safeEnd, start + duration \div n)
        IN [start |-> start, end |-> Max(start + CUE_MIN_LENGTH, end), text |-> words[index]]]

PlaceholderText == <<"No", " ", "speech", " ", "detected">>

\* the loop of buildCaptionCues from chunk i on, with the cursor it has reached
RECURSIVE buildCues(_, _, _)
buildCues(rawChunks, i, cursor) ==
  IF i > Len(rawChunks) THEN <<>>
  ELSE LET chunk == rawChunks[i]
           text == normalizeCaptionText(chunk.text)
           start == IF chunk.hasTimestamp THEN chunk.start ELSE Num(cursor)
           end == IF chunk.hasTimestamp THEN chunk.end ELSE Num(cursor + CUE_DEFAULT_SPAN)
           safeStart == IF start.finite THEN Max(0, start.value) ELSE cursor
           safeEnd == IF end.finite THEN Max(safeStart + CUE_MIN_SPAN, end.value)
                      ELSE safeStart + CUE_DEFAULT_SPAN
           words == wordsOf(text)
       IN IF text = <<>> THEN buildCues(rawChunks, i + 1, cursor)
          ELSE IF Len(words) = 0 THEN buildCues(rawChunks, i + 1, safeEnd)
          ELSE wordCues(words, safeStart, safeEnd) \o buildCues(rawChunks, i + 1, safeEnd)

\* buildCaptionCues with a placeholder that ends with the source clip
buildCaptionCues_FallbackEnd(rawChunks, fallbackDuration) ==
  LET cues == buildCues(rawChunks, 1, 0)
  IN IF Len(cues) = 0
     THEN <<[start |-> 0, end |-> fallbackDuration, text |-> PlaceholderText]>>
     ELSE cues

buildCaptionCues(rawChunks, fallbackDuration) ==
  LET cues == buildCues(rawChunks, 1, 0)
  IN IF Len(cues) = 0
     THEN <<[start |-> 0, end |-> Max(PLACEHOLDER_MIN_END, fallbackDuration),
             text |-> PlaceholderText]>>
     ELSE cues

\* the loop of normalizeStoredCaptionCues from cue i on
RECURSIVE normalizeCues(_, _)
normalizeCues(rawCues, i) ==
  IF i > Len(rawCues) THEN <<>>
  ELSE LET cue == rawCues[i]
           text == normalizeCaptionText(cue.text)
           safeStart == IF cue.start.finite THEN Max(0, cue.start.value) ELSE 0
           safeEnd == IF cue.end.finite THEN Max(safeStart + CUE_MIN_SPAN, cue.end.value)
                      ELSE safeStart + CUE_DEFAULT_SPAN
           words == wordsOf(text)
       IN (IF Len(words) <= 1
           THEN (IF text = <<>> THEN <<>>
                 ELSE <<[start |-> safeStart, end |-> safeEnd, text |-> text]>>)
           ELSE wordCues(words, safeStart, safeEnd))
          \o normalizeCues(rawCues, i + 1)

\* stored cues carry plain numbers; a cue read back from the store may not
normalizeStoredCaptionCues(rawCues) == normalizeCues(rawCues, 1)

\* what the recognizer may hand back, chunk by chunk
A2 == <<" ", "a", " ", " ", "b", " ">>
A4 == <<"a", " ", "b", " ", "c", " ", "d">>
TwoWords == [text |-> A2, hasTimestamp |-> TRUE, start |-> Num(0), end |-> Num(120)]
FourWords == [text |-> A4, hasTimestamp |-> TRUE, start |-> Num(60), end |-> Num(120)]
Blank == [text |-> <<" ">>, hasTimestamp |-> TRUE, start |-> Num(0), end |-> Num(900)]
Bare == [text |-> <<"a">>, hasTimestamp |-> FALSE, start |-> NotANumber, end |-> NotANumber]
Early == [text |-> <<"a">>, hasTimestamp |-> TRUE, start |-> Num(-60), end |-> NotANumber]
Brief == [text |-> <<"a", " ", "b">>, hasTimestamp |-> TRUE, start |-> Num(120), end |-> Num(150)]
ChunkLists ==
  { <<>>, <<Blank>>, <<TwoWords>>, <<FourWords>>, <<Early>>, <<Brief>>,
    <<Blank, Bare>>, <<TwoWords, Bare>>, <<TwoWords, FourWords>> }
\* result.text of a result that carries no chunk array
ResultTexts == {<<>>, <<"a">>, A2}

\* audioClips.value[0] ?? visualClips.value.find(clip => clip.kind === 'video'):
\* the indices of the clips of a kind, the earliest start first
EarliestOf(kind) ==
  {i \in 1..Len(clips) :
     /\ clips[i].kind = kind
     /\ \A j \in 1..Len(clips) :
          clips[j].kind = kind =>
            \/ clips[i].start < clips[j].start
            \/ (clips[i].start = clips[j].start /\ i <= j)}
\* for the video, its place among the clips of the visual track does not matter
SourceClipIndex ==
  IF EarliestOf("audio") # {} THEN CHOOSE i \in EarliestOf("audio") : TRUE
  ELSE IF EarliestOf("video") # {} THEN CHOOSE i \in EarliestOf("video") : TRUE
  ELSE 0

\* sourceClip.duration as generateCaptions reads it, in caption ticks
SourceDuration(job) ==
  3 * (IF job.source.id \in ClipIds THEN clips[ClipIndex(job.source.id)].duration
       ELSE job.source.duration)

DropJob(j) == RemoveAt(captionJobs, j)

\* generateCaptions() up to its first await, with fewer than `limit`
\* invocations in flight
GenerateCaptionsWithin(limit) ==
  /\ userActive
  /\ IF isGeneratingCaptions
     THEN UNCHANGED <<statusMessage, cpVars>>
     ELSE IF SourceClipIndex = 0
     THEN /\ statusMessage' = "Add audio (or a video with audio) before generating captions."
          /\ UNCHANGED cpVars
     ELSE /\ Len(captionJobs) < limit
          /\ captionJobs' = Append(captionJobs,
                                   [pc |-> "getFile", source |-> clips[SourceClipIndex]])
          /\ UNCHANGED <<statusMessage, captions, isGeneratingCaptions>>
  /\ UNCHANGED <<tlVars, pbVars, imVars, exVars, userActive>>

GenerateCaptions == GenerateCaptionsWithin(MaxCaptionJobs)

\* getFile(sourceClip.fileId) resolves, with the blob record or with null
CaptionGetFileResolves(j, found) ==
  /\ j \in 1..Len(captionJobs)
  /\ captionJobs[j].pc = "getFile"
  /\ IF found
     THEN /\ isGeneratingCaptions' = TRUE
          /\ statusMessage' = "Generating captions... this can take a bit on first run."
          /\ captionJobs' = [captionJobs EXCEPT ![j].pc = "model"]
     ELSE /\ statusMessage' = "Could not locate audio data for caption generation."
          /\ captionJobs' = DropJob(j)
          /\ UNCHANGED isGeneratingCaptions
  /\ UNCHANGED <<tlVars, pbVars, imVars, exVars, userActive, captions>>

\* captions.value = buildCaptionCues(chunks, sourceClip.duration), up to saveDraft
\* `saved` tells whether the awaited saveDraft will resolve
CaptionResult(j, chunks, saved) ==
  /\ j \in 1..Len(captionJobs)
  /\ captionJobs[j].pc = "model"
  /\ captions' = buildCaptionCues(chunks, SourceDuration(captionJobs[j]))
  /\ statusMessage' = "Generated caption cue(s)."
  /\ captionJobs' = [captionJobs EXCEPT ![j].pc = IF saved THEN "save" ELSE "save-rejects"]
  /\ UNCHANGED <<tlVars, pbVars, imVars, exVars, userActive, isGeneratingCaptions>>

\* the recognizer resolves with a chunk array
CaptionModelReturns(j, chunks, saved) == CaptionResult(j, chunks, saved)

\* the recognizer resolves without a chunk array: one chunk over the whole clip
CaptionModelReturnsText(j, text, saved) ==
  /\ j \in 1..Len(captionJobs)
  /\ CaptionResult(j, <<[text |-> text, hasTimestamp |-> TRUE, start |-> Num(0),
                         end |-> Num(SourceDuration(captionJobs[j]))]>>, saved)

\* loading or running the recognizer rejects: catch, then finally
CaptionModelFails(j) ==
  /\ j \in 1..Len(captionJobs)
  /\ captionJobs[j].pc = "model"
  /\ statusMessage' = "Caption generation failed"
  /\ isGeneratingCaptions' = FALSE
  /\ captionJobs' = DropJob(j)
  /\ UNCHANGED <<tlVars, pbVars, imVars, exVars, userActive, captions>>

\* await saveDraft() settles: finally
CaptionSaveSettles(j) ==
  /\ j \in 1..Len(captionJobs)
  /\ captionJobs[j].pc \in {"save", "save-rejects"}
  /\ statusMessage' = IF captionJobs[j].pc = "save" THEN statusMessage
                      ELSE "Caption generation failed"
  /\ isGeneratingCaptions' = FALSE
  /\ captionJobs' = DropJob(j)
  /\ UNCHANGED <<tlVars, pbVars, imVars, exVars, userActive, captions>>

\* captions.value.findIndex(cue => inRange(time, cue.start, cue.end - cue.start)),
\* counted from 0 as in the code, -1 when no cue is found
findActiveIndex(caps, time) ==
  LET found == {i \in 1..Len(caps) : inRange(time, caps[i].start, caps[i].end - caps[i].start)}
  IN IF found = {} THEN -1
     ELSE (CHOOSE i \in found : \A k \in found : i <= k) - 1

\* activeProgress in thousandths; times in tenths of a tick, 0.001 s being 3
activeProgressOf(cue, time) ==
  Min(1000, Max(0, (1000 * 10 * (time - cue.start)) \div Max(3, 10 * (cue.end - cue.start))))

\* the window of a given first index: slice(start, end).map(...)
CaptionWindow(caps, time, activeIndex, start) ==
  LET end == Min(Len(caps), start + CAPTION_WINDOW_WORD_COUNT)
  IN [index \in 1..(end - start) |->
        LET cue == caps[start + index]
            isActive == start + index - 1 = activeIndex
        IN [start |-> cue.start, end |-> cue.end, text |-> cue.text,
            isActive |-> isActive,
            activeProgress |-> IF isActive THEN activeProgressOf(cue, time) ELSE 0]]

\* getCaptionWindowForTime with a window that begins at the active cue
getCaptionWindowForTime_Sliding(caps, time) ==
  LET activeIndex == findActiveIndex(caps, time)
  IN IF activeIndex < 0 THEN <<>>
     ELSE CaptionWindow(caps, time, activeIndex, activeIndex)

getCaptionWindowForTime(caps, time) ==
  LET activeIndex == findActiveIndex(caps, time)
  IN IF activeIndex < 0 THEN <<>>
     ELSE CaptionWindow(caps, time, activeIndex,
                        (activeIndex \div CAPTION_WINDOW_WORD_COUNT) * CAPTION_WINDOW_WORD_COUNT)

\* the computed activeCaptionWindow; the clock counts 1/100 s, the cues 1/300 s
activeCaptionWindow == getCaptionWindowForTime(captions, 3 * currentTime)

(* ---------------- draft persistence ------------------------------------ *)
\* A clip's fileId is created in the same loop iteration as its id; the model
\* names the blob of a clip by the clip's id.
CaptionStyles == {"capcut", "minimal"}

\* updatedAt: Date.now(), counted down instead of up
UpdatedAt_Reversed(clock) == MaxClock - clock

\* updatedAt: Date.now()
UpdatedAt(clock) == clock

\* the payload saveDraft builds from the editor state
PayloadOf(cs, caps, os, style) ==
  [id |-> "default", updatedAt |-> UpdatedAt(now), clips |-> cs, captions |-> caps, overlays |-> os,
   captionStyleId |-> style]

\* saveDraft(): nothing before the restore has ended, else one putProject.
\* Transactions on the projects store take effect in the order they are
\* created, so the put is placed where saveDraft builds its payload;
\* `written` tells whether the transaction will complete.
SaveDraft(cs, caps, os, style, hasRestored, written) ==
  storedProject' = IF hasRestored /\ written THEN PayloadOf(cs, caps, os, style)
                   ELSE storedProject

\* setTimeout returns an id no armed timer and no kept reference holds
FreshTimer ==
  CHOOSE t \in 1..MaxTimers : t \notin pendingTimers \cup {draftSaveTimeout}

\* the armed timers after queueDraftSave has armed timer t, without clearing
ArmedAfterQueue_NoClear(timers, timeout, t) == timers \cup {t}

\* the armed timers after queueDraftSave: clearDraftSaveTimeout, then setTimeout
ArmedAfterQueue(timers, timeout, t) == (timers \ {timeout}) \cup {t}

queueDraftSave ==
  /\ draftSaveTimeout' = FreshTimer
  /\ pendingTimers' = ArmedAfterQueue(pendingTimers, draftSaveTimeout, FreshTimer)

\* the watcher on clips, captions, overlays and the caption settings, run
\* once after the handler that changed one of them
Watch(triggered, hasRestored) ==
  IF triggered /\ hasRestored THEN queueDraftSave
  ELSE UNCHANGED <<draftSaveTimeout, pendingTimers>>

\* the callback of the draft-save timer: void saveDraft()
DraftTimerFires(t, written) ==
  /\ t \in pendingTimers
  /\ pendingTimers' = pendingTimers \ {t}
  /\ SaveDraft(clips, captions, overlays, captionStyleId, hasRestoredDraft, written)
  /\ UNCHANGED <<tlVars, pbVars, statusMessage, imVars, exVars, userActive, prVars, cpVars,
                 captionStyleId, hasRestoredDraft, restorePc, restoreProject, restoreIdx,
                 restored, draftSaveTimeout, storedFiles>>
  /\ UNCHANGED <<svVars, elVars, pjVars, srVars, hsVars>>

\* the caption style select changes
SetCaptionStyle(style) ==
  /\ userActive
  /\ captionStyleId' = style
  /\ Watch(style # captionStyleId, hasRestoredDraft)
  /\ UNCHANGED <<tlVars, pbVars, statusMessage, imVars, exVars, userActive, prVars, cpVars,
                 hasRestoredDraft, restorePc, restoreProject, restoreIdx, restored,
                 storedProject, storedFiles>>
  /\ UNCHANGED <<svVars, elVars, pjVars, srVars, hsVars>>

\* stored cues as normalizeStoredCaptionCues reads them
StoredCues(caps) ==
  [i \in 1..Len(caps) |->
     [start |-> Num(caps[i].start), end |-> Num(caps[i].end), text |-> caps[i].text]]

\* restoreDraft from the for-loop at position i on: up to the next getFile, or
\* past the loop through the assignments; onMounted then syncs the preview
RestoreRunTo(project, i, done) ==
  IF i <= Len(project.clips)
  THEN /\ restorePc' = "getFile"
       /\ restoreProject' = project
       /\ restoreIdx' = i
       /\ restored' = done
       /\ UNCHANGED <<tlVars, pbVars, statusMessage, captions, captionStyleId,
                      hasRestoredDraft, draftSaveTimeout, pendingTimers>>
  ELSE /\ restorePc' = "done"
       /\ restoreProject' = NoProject
       /\ restoreIdx' = 0
       /\ restored' = <<>>
       /\ clips' = done
       /\ captions' = normalizeStoredCaptionCues(StoredCues(project.captions))
       /\ overlays' = project.overlays
       /\ captionStyleId' = project.captionStyleId
       /\ hasRestoredDraft' = TRUE
       /\ statusMessage' = IF Len(done) > 0 \/ Len(project.overlays) > 0
                           THEN "Restored your last draft from local storage."
                           ELSE "Draft restored but no media files were available."
       /\ Watch(TRUE, TRUE)
       /\ playing' = SyncPlaying(done, currentTime, isPlaying)
       /\ lastSync' = SyncKind(TRUE)
       /\ UNCHANGED <<selectedClipId, selectedOverlayId, dragState, currentTime, isPlaying,
                      playbackLastTimestamp, playbackRaf>>

\* getProject resolves with the stored record or with null
RestoreGetProjectResolves ==
  /\ restorePc = "getProject"
  /\ IF storedProject = NoProject
     THEN /\ hasRestoredDraft' = TRUE
          /\ restoreProject' = NoProject
          /\ restorePc' = "done"
          /\ playing' = SyncPlaying(clips, currentTime, isPlaying)
          /\ lastSync' = SyncKind(TRUE)
          /\ UNCHANGED <<tlVars, currentTime, isPlaying, playbackLastTimestamp, playbackRaf,
                         statusMessage, captions, captionStyleId, restoreIdx, restored,
                         draftSaveTimeout, pendingTimers>>
     ELSE RestoreRunTo(storedProject, 1, <<>>)
  /\ UNCHANGED <<imVars, exVars, userActive, prVars, isGeneratingCaptions, captionJobs,
                 storedProject, storedFiles>>
  /\ UNCHANGED <<svVars, elVars, pjVars, srVars, hsVars>>

\* restoreDraft with a missing blob record treated as an error
RestoreGetFileResolves_MissingIsFatal ==
  /\ restorePc = "getFile"
  /\ LET storedClip == restoreProject.clips[restoreIdx]
     IN IF storedClip.id \in storedFiles
        THEN RestoreRunTo(restoreProject, restoreIdx + 1, Append(restored, storedClip))
        ELSE /\ restorePc' = "done"
             /\ restoreProject' = NoProject
             /\ restoreIdx' = 0
             /\ restored' = <<>>
             /\ hasRestoredDraft' = TRUE
             /\ statusMessage' = "Could not restore draft"
             /\ playing' = SyncPlaying(clips, currentTime, isPlaying)
             /\ lastSync' = SyncKind(TRUE)
             /\ UNCHANGED <<tlVars, currentTime, isPlaying, playbackLastTimestamp, playbackRaf,
                            captions, captionStyleId, draftSaveTimeout, pendingTimers>>
  /\ UNCHANGED <<imVars, exVars, userActive, prVars, isGeneratingCaptions, captionJobs,
                 storedProject, storedFiles>>
  /\ UNCHANGED <<svVars, elVars, pjVars, srVars, hsVars>>

\* getFile(storedClip.fileId) resolves with the blob record or with null
RestoreGetFileResolves ==
  /\ restorePc = "getFile"
  /\ LET storedClip == restoreProject.clips[restoreIdx]
     IN RestoreRunTo(restoreProject, restoreIdx + 1,
                     IF storedClip.id \in storedFiles THEN Append(restored, storedClip)
                     ELSE restored)
  /\ UNCHANGED <<imVars, exVars, userActive, prVars, isGeneratingCaptions, captionJobs,
                 storedProject, storedFiles>>
  /\ UNCHANGED <<svVars, elVars, pjVars, srVars, hsVars>>

\* getProject or getFile rejects: the catch block of restoreDraft
RestoreRejects ==
  /\ restorePc \in {"getProject", "getFile"}
  /\ restorePc' = "done"
  /\ restoreProject' = NoProject
  /\ restoreIdx' = 0
  /\ restored' = <<>>
  /\ hasRestoredDraft' = TRUE
  /\ statusMessage' = "Could not restore draft"
  /\ playing' = SyncPlaying(clips, currentTime, isPlaying)
  /\ lastSync' = SyncKind(TRUE)
  /\ UNCHANGED <<tlVars, currentTime, isPlaying, playbackLastTimestamp, playbackRaf, imVars,
                 exVars, userActive, prVars, cpVars, captionStyleId,
                 draftSaveTimeout, pendingTimers, storedProject, storedFiles>>
  /\ UNCHANGED <<svVars, elVars, pjVars, srVars, hsVars>>

\* the page is loaded again: the component is constructed anew and mounted,
\* the store is all that is kept
Reload ==
  /\ userActive
  /\ clips' = <<>>
  /\ overlays' = <<>>
  /\ selectedClipId' = 0
  /\ selectedOverlayId' = 0
  /\ dragState' = NoDrag
  /\ currentTime' = 0
  /\ isPlaying' = FALSE
  /\ playbackLastTimestamp' = 0
  /\ playbackRaf' = FALSE
  /\ playing' = {}
  /\ lastSync' = "none"
  /\ statusMessage' = "Import videos, photos and audio to start editing."
  /\ importPc' = "idle"
  /\ importFiles' = <<>>
  /\ importIdx' = 0
  /\ importDuration' = 0
  /\ isExportingMp4' = FALSE
  /\ mp4Stage' = "idle"
  /\ exportProgress' = 0
  /\ exportPc' = "idle"
  /\ exportElapsed' = 0
  /\ recorderState' = "inactive"
  /\ recorderFailed' = FALSE
  /\ downloads' = 0
  /\ activeExports' = 0
  /\ exportRefused' = "never"
  /\ requestSent' = FALSE
  /\ exportError' = "none"
  /\ mediaTime' = <<>>
  /\ captions' = <<>>
  /\ isGeneratingCaptions' = FALSE
  /\ captionJobs' = <<>>
  /\ captionStyleId' = "capcut"
  /\ hasRestoredDraft' = FALSE
  /\ restorePc' = "getProject"
  /\ restoreProject' = NoProject
  /\ restoreIdx' = 0
  /\ restored' = <<>>
  /\ draftSaveTimeout' = 0
  /\ pendingTimers' = {}
  /\ UNCHANGED <<userActive, storedProject, storedFiles>>
  /\ UNCHANGED <<svVars, elVars, pjVars, srVars, hsVars>>

\* the browser drops the record of a blob from the files store
BlobLost(id) ==
  /\ id \in storedFiles
  /\ storedFiles' = storedFiles \ {id}
  /\ UNCHANGED <<tlVars, pbVars, statusMessage, imVars, exVars, userActive, prVars, cpVars,
                 captionStyleId, hasRestoredDraft, restorePc, restoreProject, restoreIdx,
                 restored, draftSaveTimeout, pendingTimers, storedProject>>
  /\ UNCHANGED <<svVars, elVars, pjVars, srVars, hsVars>>

\* the handlers of the editor together with what they do to the draft
Unsaved == UNCHANGED <<captionStyleId, hasRestoredDraft, restorePc, restoreProject, restoreIdx,
                       restored, storedProject, storedFiles>>

DraftImportPutResolves ==
  /\ ImportPutResolves
  /\ storedFiles' = storedFiles \cup {FreshClipId}
  /\ Watch(TRUE, hasRestoredDraft)
  /\ SaveDraft(clips', captions, overlays, captionStyleId, hasRestoredDraft, importPc' = "save")
  /\ UNCHANGED <<prVars, cpVars, captionStyleId, hasRestoredDraft, restorePc,
                 restoreProject, restoreIdx, restored>>
  /\ UNCHANGED <<svVars, elVars, pjVars, srVars, hsVars>>

DraftAddOverlay(kind) ==
  /\ AddOverlay(kind)
  /\ Watch(TRUE, hasRestoredDraft)
  /\ Unsaved
  /\ UNCHANGED <<prVars, cpVars>>
  /\ UNCHANGED <<svVars, elVars, pjVars, srVars, hsVars>>

DraftCaptionGetFileResolves(j) ==
  /\ j \in 1..Len(captionJobs)
  /\ CaptionGetFileResolves(j, captionJobs[j].source.id \in storedFiles)
  /\ UNCHANGED <<prVars, drVars, svVars, elVars, pjVars, srVars, hsVars>>

\* a saveDraft that returns before its putProject cannot reject
DraftCaptionModelReturns(j, chunks, saved) ==
  /\ saved \/ hasRestoredDraft
  /\ CaptionModelReturns(j, chunks, saved)
  /\ SaveDraft(clips, captions', overlays, captionStyleId, hasRestoredDraft, saved)
  /\ Watch(TRUE, hasRestoredDraft)
  /\ UNCHANGED <<prVars, captionStyleId, hasRestoredDraft, restorePc, restoreProject,
                 restoreIdx, restored, storedFiles>>
  /\ UNCHANGED <<svVars, elVars, pjVars, srVars, hsVars>>

DraftCaptionModelReturnsText(j, text, saved) ==
  /\ saved \/ hasRestoredDraft
  /\ CaptionModelReturnsText(j, text, saved)
  /\ SaveDraft(clips, captions', overlays, captionStyleId, hasRestoredDraft, saved)
  /\ Watch(TRUE, hasRestoredDraft)
  /\ UNCHANGED <<prVars, captionStyleId, hasRestoredDraft, restorePc, restoreProject,
                 restoreIdx, restored, storedFiles>>
  /\ UNCHANGED <<svVars, elVars, pjVars, srVars, hsVars>>

(* ---------------- draft writes in flight -------------------------------- *)
\* The same handlers with the transaction of putProject kept open: saveDraft
\* builds its payload, putProject awaits the cached connection and creates a
\* readwrite transaction on the projects store, and the awaiting handler goes
\* on when the transaction has completed or failed.  Transactions of one
\* connection on one store run in the order they were created.

\* the wall clock moves on
ClockTicks ==
  /\ now < MaxClock
  /\ now' = now + 1
  /\ UNCHANGED <<tlVars, pbVars, statusMessage, imVars, exVars, userActive, prVars, cpVars,
                 drVars, pendingWrites, elVars, pjVars, srVars, hsVars>>

\* saveDraft() on behalf of `owner`, up to the transaction of its putProject
putProject(cs, caps, os, style, hasRestored, owner, written) ==
  IF hasRestored
  THEN /\ Len(pendingWrites) < MaxWrites
       /\ pendingWrites' = Append(pendingWrites,
                                   [payload |-> PayloadOf(cs, caps, os, style),
                                    owner |-> owner, written |-> written])
  ELSE UNCHANGED pendingWrites

\* the oldest transaction ends: tx.oncomplete, or tx.onerror
TransactionEnds(owner) ==
  /\ pendingWrites # <<>>
  /\ Head(pendingWrites).owner = owner
  /\ pendingWrites' = Tail(pendingWrites)
  /\ storedProject' = IF Head(pendingWrites).written THEN Head(pendingWrites).payload
                       ELSE storedProject
  /\ UNCHANGED now

NoRestoreStep == UNCHANGED <<captionStyleId, hasRestoredDraft, restorePc, restoreProject,
                             restoreIdx, restored>>

SavesImportPutResolves(written) ==
  /\ ImportPutResolves
  /\ storedFiles' = storedFiles \cup {FreshClipId}
  /\ Watch(TRUE, hasRestoredDraft)
  /\ IF importPc' = "save"
     THEN putProject(clips', captions, overlays, captionStyleId, hasRestoredDraft,
                     "import", written)
     ELSE UNCHANGED pendingWrites
  /\ NoRestoreStep
  /\ UNCHANGED <<prVars, cpVars, storedProject, now, elVars, pjVars, srVars, hsVars>>

\* the write importMedia awaits has ended: it goes on, or throws
SavesImportSettles ==
  /\ TransactionEnds("import")
  /\ IF Head(pendingWrites).written THEN ImportSaveResolves ELSE ImportAwaitRejects
  /\ NoRestoreStep
  /\ UNCHANGED <<prVars, cpVars, draftSaveTimeout, pendingTimers, storedFiles, elVars, pjVars, srVars, hsVars>>

SavesAddOverlay(kind) ==
  /\ AddOverlay(kind)
  /\ Watch(TRUE, hasRestoredDraft)
  /\ NoRestoreStep
  /\ UNCHANGED <<prVars, cpVars, storedProject, storedFiles, svVars, elVars, pjVars, srVars, hsVars>>

\* the callback of the draft-save timer: void saveDraft()
SavesTimerFires(t, written) ==
  /\ t \in pendingTimers
  /\ pendingTimers' = pendingTimers \ {t}
  /\ putProject(clips, captions, overlays, captionStyleId, hasRestoredDraft, "timer", written)
  /\ NoRestoreStep
  /\ UNCHANGED <<tlVars, pbVars, statusMessage, imVars, exVars, userActive, prVars, cpVars,
                 draftSaveTimeout, storedProject, storedFiles, now, elVars, pjVars, srVars, hsVars>>

\* nobody awaits the write of the timer
SavesTimerSettles ==
  /\ TransactionEnds("timer")
  /\ NoRestoreStep
  /\ UNCHANGED <<tlVars, pbVars, statusMessage, imVars, exVars, userActive, prVars, cpVars,
                 draftSaveTimeout, pendingTimers, storedFiles, elVars, pjVars, srVars, hsVars>>

SavesCaptionModelReturns(j, chunks, saved) ==
  /\ saved \/ hasRestoredDraft
  /\ CaptionModelReturns(j, chunks, saved)
  /\ putProject(clips, captions', overlays, captionStyleId, hasRestoredDraft, "captions", saved)
  /\ Watch(TRUE, hasRestoredDraft)
  /\ NoRestoreStep
  /\ UNCHANGED <<prVars, storedProject, storedFiles, now, elVars, pjVars, srVars, hsVars>>

\* the write generateCaptions awaits has ended: finally
SavesCaptionSettles(j) ==
  /\ TransactionEnds("captions")
  /\ CaptionSaveSettles(j)
  /\ NoRestoreStep
  /\ UNCHANGED <<prVars, draftSaveTimeout, pendingTimers, storedFiles, elVars, pjVars, srVars, hsVars>>

(* ---------------- the preview elements and their paused flags ----------- *)
\* The <video> and <audio> elements of the template are created, and their
\* refs registered, when Vue patches the DOM after the handler that changed
\* clips has returned; syncPreviewMedia looks the elements up by clip id.
ClipOf(cs, id) == cs[CHOOSE i \in 1..Len(cs) : cs[i].id = id]

InsideAt(cs, time, id) == inRange(time, ClipOf(cs, id).start, ClipOf(cs, id).duration)

\* a pass that updates the elements inside their interval and leaves the
\* others as they are
SyncElementsPlaying_KeepsOutside(cs, time, play) ==
  LET inside == {id \in MediaIds(cs) \cap registered : InsideAt(cs, time, id)}
  IN (elementPlaying \ inside) \cup (IF play THEN inside ELSE {})

\* the elements that are not paused after syncPreviewMedia: a registered
\* element of a clip is played if its interval contains the time and the clock
\* is playing, and paused otherwise; other elements are not visited
SyncElementsPlaying(cs, time, play) ==
  LET visited == MediaIds(cs) \cap registered
      inside == {id \in visited : InsideAt(cs, time, id)}
  IN (elementPlaying \ visited) \cup (IF play THEN inside ELSE {})

\* the DOM lags behind clips until Vue has patched it
PatchPending == registered # MediaIds(clips)

\* Vue patches the DOM: the ref callbacks register the new elements and
\* delete the removed ones; an element taken out of the document is paused
RenderFlush ==
  /\ PatchPending
  /\ registered' = MediaIds(clips)
  /\ elementPlaying' = elementPlaying \cap MediaIds(clips)
  /\ UNCHANGED <<tlVars, pbVars, statusMessage, imVars, exVars, userActive,
                 prVars, cpVars, drVars, svVars, pjVars, srVars, hsVars>>

NoElementStep == UNCHANGED <<registered, prVars, cpVars, drVars, svVars, pjVars, srVars, hsVars>>

ElImportPutResolves ==
  /\ ~PatchPending
  /\ ImportPutResolves
  /\ UNCHANGED elementPlaying
  /\ NoElementStep

ElImportSaveResolves ==
  /\ ~PatchPending
  /\ ImportSaveResolves
  /\ elementPlaying' = SyncElementsPlaying(clips, currentTime, isPlaying)
  /\ NoElementStep

ElRemoveClip ==
  /\ ~PatchPending
  /\ RemoveClip
  /\ elementPlaying' = SyncElementsPlaying(clips', currentTime, isPlaying)
  /\ NoElementStep

ElTogglePlayback ==
  /\ ~PatchPending
  /\ TogglePlayback
  /\ elementPlaying' = IF projectDuration = 0 THEN elementPlaying
                        ELSE SyncElementsPlaying(clips, currentTime, isPlaying')
  /\ NoElementStep

ElStepPlayback(elapsed) ==
  /\ ~PatchPending
  /\ StepPlayback(elapsed)
  /\ elementPlaying' = IF ~isPlaying THEN elementPlaying
                        ELSE SyncElementsPlaying(clips, currentTime', isPlaying')
  /\ NoElementStep

ElSeekTo(time) ==
  /\ ~PatchPending
  /\ SeekTo(time)
  /\ elementPlaying' = SyncElementsPlaying(clips, currentTime', isPlaying)
  /\ NoElementStep

ElOnPointerMove(dx) ==
  /\ ~PatchPending
  /\ OnPointerMove(dx)
  /\ UNCHANGED elementPlaying
  /\ NoElementStep

ElOnPointerUp ==
  /\ ~PatchPending
  /\ OnPointerUp
  /\ elementPlaying' = IF dragState = NoDrag THEN elementPlaying
                        ELSE SyncElementsPlaying(clips, currentTime, isPlaying)
  /\ NoElementStep

(* ---------------- the multi-project editor ------------------------------ *)
\* The second editor of index.vue keeps several projects in the store; its
\* project list stays on screen until a restoreDraft call has returned, and
\* isProjectReady is one flag shared by all calls.  The projects of this
\* section hold overlays only, so the clip loop of restoreDraft has no turn.

\* the record createProject writes
NewProject(p) ==
  [id |-> p, updatedAt |-> UpdatedAt(now), clips |-> <<>>, captions |-> <<>>,
   overlays |-> <<>>, captionStyleId |-> "capcut"]

\* the projects store after saveDraft of the multi-project editor
ProjectsAfterSave(written) ==
  IF isProjectReady /\ currentProjectId # 0 /\ written
  THEN [storedProjects EXCEPT ![currentProjectId] =
          [PayloadOf(clips, captions, overlays, captionStyleId) EXCEPT !.id = currentProjectId]]
  ELSE storedProjects

resetEditorState ==
  /\ StopPlayback(clips, currentTime)
  /\ selectedClipId' = 0
  /\ selectedOverlayId' = 0
  /\ currentTime' = 0
  /\ clips' = <<>>
  /\ captions' = <<>>
  /\ overlays' = <<>>
  /\ captionStyleId' = "capcut"

SingleEditorKept ==
  UNCHANGED <<hasRestoredDraft, restorePc, restoreProject, restoreIdx, restored,
              storedProject, storedFiles, imVars, exVars, userActive, prVars,
              isGeneratingCaptions, captionJobs, svVars, elVars, srVars, hsVars>>

\* createProject up to its putProject; its continuation is openProject(p)
CreateProject ==
  /\ userActive
  /\ currentView = "projects"
  /\ \E p \in 1..MaxProjects :
        /\ storedProjects[p] = NoProject
        /\ \A q \in 1..(p - 1) : storedProjects[q] # NoProject
        /\ storedProjects' = [storedProjects EXCEPT ![p] = NewProject(p)]
  /\ UNCHANGED <<tlVars, pbVars, statusMessage, captions, captionStyleId, draftSaveTimeout,
                 pendingTimers, currentView, currentProjectId, isProjectReady, restoreJobs>>
  /\ SingleEditorKept

\* openProject(p) up to the first await of restoreDraft(p); the watcher runs
\* after resetEditorState and finds isProjectReady false
OpenProject(p) ==
  /\ userActive
  /\ currentView = "projects"
  /\ storedProjects[p] # NoProject
  /\ Len(restoreJobs) < MaxRestoreJobs
  /\ currentProjectId' = p
  /\ isProjectReady' = FALSE
  /\ resetEditorState
  /\ restoreJobs' = Append(restoreJobs, p)
  /\ UNCHANGED <<dragState, statusMessage, draftSaveTimeout, pendingTimers, currentView,
                 storedProjects>>
  /\ SingleEditorKept

\* getProject of the j-th running restoreDraft resolves: it assigns the
\* editor state, opens the gate and returns to openProject, which shows the
\* editor; the watcher runs after the assignments
RestoreJobResolves(j) ==
  /\ j \in 1..Len(restoreJobs)
  /\ LET project == storedProjects[restoreJobs[j]]
     IN /\ project.clips = <<>>
        /\ clips' = project.clips
        /\ captions' = normalizeStoredCaptionCues(StoredCues(project.captions))
        /\ overlays' = project.overlays
        /\ captionStyleId' = project.captionStyleId
        /\ statusMessage' = IF Len(project.overlays) > 0
                            THEN "Restored your last draft from local storage."
                            ELSE "Draft restored but no media files were available."
  /\ isProjectReady' = TRUE
  /\ restoreJobs' = RemoveAt(restoreJobs, j)
  /\ Watch(TRUE, currentProjectId # 0)
  /\ currentView' = "editor"
  /\ playing' = SyncPlaying(clips', currentTime, isPlaying)
  /\ lastSync' = SyncKind(TRUE)
  /\ UNCHANGED <<selectedClipId, selectedOverlayId, dragState, currentTime, isPlaying,
                 playbackLastTimestamp, playbackRaf, currentProjectId, storedProjects>>
  /\ SingleEditorKept

\* addTitle in the editor view, and the watcher
ProjectAddOverlay(kind) ==
  /\ currentView = "editor"
  /\ AddOverlay(kind)
  /\ Watch(TRUE, isProjectReady /\ currentProjectId # 0)
  /\ UNCHANGED <<captions, captionStyleId, pjVars, srVars, hsVars>>
  /\ SingleEditorKept

\* the callback of the draft-save timer: void saveDraft()
ProjectTimerFires(t, written) ==
  /\ t \in pendingTimers
  /\ pendingTimers' = pendingTimers \ {t}
  /\ storedProjects' = ProjectsAfterSave(written)
  /\ UNCHANGED <<tlVars, pbVars, statusMessage, captions, captionStyleId, draftSaveTimeout,
                 currentView, currentProjectId, isProjectReady, restoreJobs>>
  /\ SingleEditorKept

\* backToProjects: await saveDraft(), then the project list; a rejected write
\* ends the handler
BackToProjects(written) ==
  /\ userActive
  /\ currentView = "editor"
  /\ storedProjects' = ProjectsAfterSave(written)
  /\ IF written \/ ~isProjectReady \/ currentProjectId = 0
     THEN /\ currentView' = "projects"
          /\ currentProjectId' = 0
          /\ resetEditorState
     ELSE UNCHANGED <<clips, overlays, selectedClipId, selectedOverlayId, pbVars, captions,
                      captionStyleId, currentView, currentProjectId>>
  /\ UNCHANGED <<dragState, statusMessage, draftSaveTimeout, pendingTimers, isProjectReady,
                 restoreJobs>>
  /\ SingleEditorKept

(* ---------------- the export-mp4 endpoint -------------------------------- *)
\* One run of the event handler per request; the runs of concurrent requests
\* interleave at their awaits.  A response is its HTTP status; an error thrown
\* without createError is answered with status 500.
ExitCodes == {"0", "1", "signal"}

EditorKept ==
  UNCHANGED <<tlVars, pbVars, statusMessage, imVars, exVars, userActive,
              prVars, cpVars, drVars, svVars, elVars, pjVars>>

Responds(r, status) ==
  requests' = [requests EXCEPT ![r].pc = "done", ![r].response = status]

\* leaves the try block with the given outcome: finally runs next
Finally(r, status) ==
  requests' = [requests EXCEPT ![r].pc = "rm", ![r].outcome = status]

FreshTempDir == CHOOSE d \in 1..MaxRequests : d \notin tempDirs

\* a request arrives and its body is read to the end
RequestArrives(r, body) ==
  /\ requests[r].pc = "none"
  /\ requests' = [requests EXCEPT ![r].pc = "body", ![r].body = body]
  /\ UNCHANGED tempDirs
  /\ EditorKept /\ UNCHANGED hsVars

\* the checks of the payload and of the ffmpeg binary, then mkdtemp is called
PayloadChecked(r, ffmpegStatic) ==
  /\ requests[r].pc = "body"
  /\ IF requests[r].body = "empty" THEN Responds(r, 400)
     ELSE IF ~ffmpegStatic THEN Responds(r, 500)
     ELSE requests' = [requests EXCEPT ![r].pc = "mkdtemp"]
  /\ UNCHANGED tempDirs
  /\ EditorKept /\ UNCHANGED hsVars

MkdtempSettles(r, ok) ==
  /\ requests[r].pc = "mkdtemp"
  /\ IF ok
     THEN /\ tempDirs' = tempDirs \cup {FreshTempDir}
          /\ requests' = [requests EXCEPT ![r].pc = "writeFile", ![r].tempDir = FreshTempDir]
     ELSE /\ Responds(r, 500)
          /\ UNCHANGED tempDirs
  /\ EditorKept /\ UNCHANGED hsVars

\* writeFile settles; runFfmpeg spawns the transcoder
WriteFileSettles(r, ok) ==
  /\ requests[r].pc = "writeFile"
  /\ IF ok
     THEN requests' = [requests EXCEPT ![r].pc = "ffmpeg", ![r].spawned = TRUE]
     ELSE Finally(r, 500)
  /\ UNCHANGED tempDirs
  /\ EditorKept /\ UNCHANGED hsVars

\* child.on('error'): the transcoder could not be spawned
FfmpegError(r) ==
  /\ requests[r].pc = "ffmpeg"
  /\ Finally(r, 500)
  /\ UNCHANGED tempDirs
  /\ EditorKept /\ UNCHANGED hsVars

\* a handler whose failing conversion skips the finally block
FfmpegCloses_NoFinally(r, code) ==
  /\ requests[r].pc = "ffmpeg"
  /\ requests' = [requests EXCEPT ![r].code = code,
                                   ![r].pc = IF code = "0" THEN "readFile" ELSE "done",
                                   ![r].response = IF code = "0" THEN 0 ELSE 500]
  /\ UNCHANGED tempDirs
  /\ EditorKept /\ UNCHANGED hsVars

\* child.on('close'): resolve on code 0, reject otherwise
FfmpegCloses(r, code) ==
  /\ requests[r].pc = "ffmpeg"
  /\ IF code = "0"
     THEN requests' = [requests EXCEPT ![r].code = code, ![r].pc = "readFile"]
     ELSE requests' = [requests EXCEPT ![r].code = code, ![r].pc = "rm", ![r].outcome = 500]
  /\ UNCHANGED tempDirs
  /\ EditorKept /\ UNCHANGED hsVars

\* readFile(outputPath) settles: return output, or throw
ReadFileSettles(r, ok) ==
  /\ requests[r].pc = "readFile"
  /\ Finally(r, IF ok THEN 200 ELSE 500)
  /\ UNCHANGED tempDirs
  /\ EditorKept /\ UNCHANGED hsVars

\* finally: rm(tempDir, { recursive: true, force: true }), then the response
RmResolves(r) ==
  /\ requests[r].pc = "rm"
  /\ tempDirs' = tempDirs \ {requests[r].tempDir}
  /\ Responds(r, requests[r].outcome)
  /\ EditorKept /\ UNCHANGED hsVars

(* ---------------- the history endpoint ----------------------------------- *)
\* payload.history of a page: an array of items, or (the sequence <<-1>>
\* stands for it) something that is not an array
NotAnArray == <<-1>>
PageItems(run) ==
  {<<>>, NotAnArray} \cup (IF Len(run.history) < MaxItems THEN {<<run.fetches>>} ELSE {})
HistoryItemIds == {0, 1, 2}
UpstreamStatuses == {200, 401, 500}

\* requireApiKey, then the first pass of the loop up to its fetch
HistoryRequested(apiKey) ==
  /\ historyRun.pc = "none"
  /\ IF apiKey
     THEN historyRun' = [historyRun EXCEPT !.pc = "fetch", !.cursor = 0, !.fetches = 1]
     ELSE historyRun' = [historyRun EXCEPT !.pc = "done", !.status = 400]
  /\ UNCHANGED upstream
  /\ EditorKept /\ UNCHANGED srVars

\* a loop that keeps the page fetched last in place of the pages before it
HistoryPageArrives_KeepsLastPage(status, items, has_more, last) ==
  /\ historyRun.pc = "fetch"
  /\ upstream' = [served |-> IF status = 200 /\ items # NotAnArray
                               THEN upstream.served \o items ELSE upstream.served,
                  last |-> last]
  /\ IF status # 200
     THEN historyRun' = [historyRun EXCEPT !.pc = "done", !.status = status]
     ELSE LET history == IF items # NotAnArray THEN items ELSE historyRun.history
          IN  IF ~has_more \/ last = 0 \/ historyRun.page + 1 >= HISTORY_PAGE_LIMIT
              THEN historyRun' = [historyRun EXCEPT !.pc = "done", !.status = 200,
                                    !.history = history, !.body = history]
              ELSE historyRun' = [historyRun EXCEPT !.history = history,
                                    !.startAfterHistoryItemId = last,
                                    !.page = @ + 1, !.cursor = last, !.fetches = @ + 1]
  /\ EditorKept /\ UNCHANGED srVars

\* the fetch of a page settles: the rest of the loop body, the loop test and,
\* when the loop goes on, the next pass up to its fetch
HistoryPageArrives(status, items, has_more, last) ==
  /\ historyRun.pc = "fetch"
  /\ upstream' = [served |-> IF status = 200 /\ items # NotAnArray
                               THEN upstream.served \o items ELSE upstream.served,
                  last |-> last]
  /\ IF status # 200
     THEN historyRun' = [historyRun EXCEPT !.pc = "done", !.status = status]
     ELSE LET history == IF items # NotAnArray THEN historyRun.history \o items
                         ELSE historyRun.history
          IN  IF ~has_more \/ last = 0 \/ historyRun.page + 1 >= HISTORY_PAGE_LIMIT
              THEN historyRun' = [historyRun EXCEPT !.pc = "done", !.status = 200,
                                    !.history = history, !.body = history]
              ELSE historyRun' = [historyRun EXCEPT !.history = history,
                                    !.startAfterHistoryItemId = last,
                                    !.page = @ + 1, !.cursor = last, !.fetches = @ + 1]
  /\ EditorKept /\ UNCHANGED srVars

(* ---------------- the active-state queries of preview and export --------- *)
\* Array.prototype.sort((a, b) => a.start - b.start): a stable sort
RECURSIVE InsertByStart(_, _)
InsertByStart(sorted, item) ==
  IF sorted = <<>> THEN <<item>>
  ELSE IF item.start < Head(sorted).start THEN <<item>> \o sorted
  ELSE <<Head(sorted)>> \o InsertByStart(Tail(sorted), item)

RECURSIVE SortByStart(_)
SortByStart(items) ==
  IF items = <<>> THEN <<>>
  ELSE InsertByStart(SortByStart(SubSeq(items, 1, Len(items) - 1)), items[Len(items)])

ActiveAt(items, time) ==
  LET Active(item) == inRange(time, item.start, item.duration)
  IN SelectSeq(items, Active)

\* the computed visualClips
visualClips(cs) == SortByStart(SelectSeq(cs, IsVisual))

\* Array.prototype.find(...) ?? null: the id of the first match, 0 for null
FirstActive(items, time) ==
  LET found == ActiveAt(items, time)
  IN IF found = <<>> THEN 0 ELSE found[1].id

\* the computed activeVisualClip and activeOverlays of the preview
activeVisualClip(cs, time) == FirstActive(visualClips(cs), time)
activeOverlays(os, time) == SortByStart(ActiveAt(os, time))

\* draw() of renderProjectToWebm: visual and activeOverlayItems
exportVisual(cs, elapsed) == FirstActive(visualClips(cs), elapsed)
activeOverlayItems(os, elapsed) == ActiveAt(os, elapsed)

(* ---------------- specification ---------------------------------------- *)
vars == <<tlVars, pbVars, statusMessage, imVars, exVars, userActive, extVars>>

\* The specifications of this section do not observe the media elements of the
\* preview: every step of theirs leaves extVars as it is.

Batches == UNION {[1..n -> MediaFiles] : n \in 0..MaxBatchLen}

TimelineEvent ==
  \/ \E id \in 1..(MaxClips + 3) : SelectClip(id) /\ UNCHANGED extVars
  \/ \E id \in 1..(MaxOverlays + 2) : SelectOverlay(id) /\ UNCHANGED extVars
  \/ \E mode \in DragModes, id \in 1..(MaxClips + 3) : StartClipDrag(mode, id) /\ UNCHANGED extVars
  \/ \E dx \in DragPixels : OnPointerMove(dx) /\ UNCHANGED extVars
  \/ OnPointerUp /\ UNCHANGED extVars
  \/ \E f \in ClipFields, v \in InspectorValues, fin \in BOOLEAN :
        UpdateSelectedClipField(f, v, fin) /\ UNCHANGED extVars
  \/ RemoveClip /\ UNCHANGED extVars
  \/ \E kind \in {"title", "sticker"} : AddOverlay(kind) /\ UNCHANGED extVars
  \/ \E f \in OverlayFields, v \in InspectorValues, fin \in BOOLEAN :
        UpdateSelectedOverlayField(f, v, fin) /\ UNCHANGED extVars
  \/ RemoveOverlay /\ UNCHANGED extVars

PlaybackEvent ==
  \/ TogglePlayback /\ UNCHANGED extVars
  \/ \E t \in SeekTimes : SeekTo(t) /\ UNCHANGED extVars
  \/ \E d \in {-SEEK_BUTTON_DELTA, SEEK_BUTTON_DELTA} : SeekBy(d) /\ UNCHANGED extVars

UserEvent ==
  \/ TimelineEvent
  \/ PlaybackEvent
  \/ \E files \in Batches : ImportMedia(files, MaxClips) /\ UNCHANGED extVars
  \/ ExportMp4 /\ UNCHANGED extVars

ImportStep ==
  \/ ImportProbeResolves /\ UNCHANGED extVars
  \/ ImportPutResolves /\ UNCHANGED extVars
  \/ ImportSaveResolves /\ UNCHANGED extVars
  \/ ImportAwaitRejects /\ UNCHANGED extVars

ExportStep ==
  \/ ExportSetupThrows /\ UNCHANGED extVars
  \/ ExportSetupDone /\ UNCHANGED extVars
  \/ \E dt \in FrameDeltas : ExportFrame(dt) /\ UNCHANGED extVars
  \/ ExportRecorderError /\ UNCHANGED extVars
  \/ ExportRecordingFails /\ UNCHANGED extVars
  \/ ExportEmptyBuffer /\ UNCHANGED extVars
  \/ ExportRenderSucceeds /\ UNCHANGED extVars
  \/ ExportConvertSucceeds /\ UNCHANGED extVars
  \/ ExportConvertFails /\ UNCHANGED extVars

Next ==
  \/ UserEvent
  \/ \E elapsed \in FrameDeltas : StepPlayback(elapsed) /\ UNCHANGED extVars
  \/ ImportStep
  \/ ExportStep

Spec == Init /\ [][Next]_vars

\* Import batches interleaved, at their await points, with the events that
\* move and remove the clips already on the two tracks.
ImportBatches ==
  UNION {[1..n -> {f \in MediaFiles : f.dur # 54}] : n \in 0..MaxBatchLen}
NextImport ==
  \/ \E id \in 1..(MaxClips + 3) : StartClipDrag("move", id) /\ UNCHANGED extVars
  \/ \E dx \in DragPixels : OnPointerMove(dx) /\ UNCHANGED extVars
  \/ OnPointerUp /\ UNCHANGED extVars
  \/ RemoveClip /\ UNCHANGED extVars
  \/ \E files \in ImportBatches : ImportMedia(files, MaxClips) /\ UNCHANGED extVars
  \/ ImportStep
SpecImport == Init /\ [][NextImport]_vars

\* One clip under every gesture and inspector edit, in any order.
SingleFileBatches == [1..1 -> {f \in MediaFiles : f.type # "audio"}]
ClipEvent ==
  \/ \E id \in 1..(MaxClips + 3) : SelectClip(id) /\ UNCHANGED extVars
  \/ \E mode \in DragModes, id \in 1..(MaxClips + 3) : StartClipDrag(mode, id) /\ UNCHANGED extVars
  \/ \E dx \in DragPixels : OnPointerMove(dx) /\ UNCHANGED extVars
  \/ OnPointerUp /\ UNCHANGED extVars
  \/ \E f \in ClipFields, v \in InspectorValues, fin \in BOOLEAN :
        UpdateSelectedClipField(f, v, fin) /\ UNCHANGED extVars
  \/ RemoveClip /\ UNCHANGED extVars
NextDrag ==
  \/ ClipEvent
  \/ \E files \in SingleFileBatches : ImportMedia(files, 1) /\ UNCHANGED extVars
  \/ ImportStep
SpecDrag == Init /\ [][NextDrag]_vars

\* Two clips side by side under the three drag gestures.
GestureBatches == [1..2 -> {f \in MediaFiles : f.type = "image" \/ f.dur = 54}]
NextGestures ==
  \/ \E mode \in DragModes, id \in 1..(MaxClips + 3) : StartClipDrag(mode, id) /\ UNCHANGED extVars
  \/ \E dx \in DragPixels : OnPointerMove(dx) /\ UNCHANGED extVars
  \/ OnPointerUp /\ UNCHANGED extVars
  \/ \E files \in GestureBatches : ImportMedia(files, MaxClips) /\ UNCHANGED extVars
  \/ ImportStep
SpecGestures == Init /\ [][NextGestures]_vars

\* The preview elements under playback, seeks, removals and moves of two
\* clips; every handler runs after the DOM patch of the one before it.
SyncBatches == [1..1 -> {f \in MediaFiles : f.dur = 100}]
NextSync ==
  \/ \E files \in SyncBatches :
       ~PatchPending /\ ImportMedia(files, MaxClips) /\ UNCHANGED extVars
  \/ ~PatchPending /\ ImportProbeResolves /\ UNCHANGED extVars
  \/ ElImportPutResolves
  \/ ElImportSaveResolves
  \/ RenderFlush
  \/ \E id \in 1..MaxClips :
       ~PatchPending /\ StartClipDrag("move", id) /\ UNCHANGED extVars
  \/ \E dx \in DragPixels : ElOnPointerMove(dx)
  \/ ElOnPointerUp
  \/ ElRemoveClip
  \/ ElTogglePlayback
  \/ \E t \in SeekTimes : ElSeekTo(t)
  \/ \E elapsed \in FrameDeltas : ElStepPlayback(elapsed)
SpecSync == Init /\ [][NextSync]_vars

\* The multi-project editor: projects are created, opened, edited, saved by
\* the debounce timer and left, in any order.
NextProjects ==
  \/ CreateProject
  \/ \E p \in 1..MaxProjects : OpenProject(p)
  \/ \E j \in 1..MaxRestoreJobs : RestoreJobResolves(j)
  \/ ProjectAddOverlay("title")
  \/ \E t \in 1..MaxTimers, written \in BOOLEAN : ProjectTimerFires(t, written)
  \/ \E written \in BOOLEAN : BackToProjects(written)
  \/ \E t \in SeekTimes : currentView = "editor" /\ SeekTo(t) /\ UNCHANGED extVars
SpecProjects == Init /\ [][NextProjects]_vars

\* The multi-project editor with a user who adds titles while project 1 is
\* the current project and stickers while project 2 is, so that the kind of an
\* overlay tells under which project it was made.
OverlayKindOf(p) == IF p = 1 THEN "title" ELSE "sticker"
NextSwitch ==
  \/ CreateProject
  \/ \E p \in 1..MaxProjects : OpenProject(p)
  \/ \E j \in 1..MaxRestoreJobs : RestoreJobResolves(j)
  \/ currentProjectId # 0 /\ ProjectAddOverlay(OverlayKindOf(currentProjectId))
  \/ \E t \in 1..MaxTimers, written \in BOOLEAN : ProjectTimerFires(t, written)
  \/ \E written \in BOOLEAN : BackToProjects(written)
SpecSwitch == Init /\ [][NextSwitch]_vars

\* One request to the history endpoint against an upstream API that answers
\* each page in any way.
HistoryPageSettles ==
  \E status \in UpstreamStatuses, items \in PageItems(historyRun),
     has_more \in BOOLEAN, last \in HistoryItemIds :
       HistoryPageArrives(status, items, has_more, last)
NextHistory ==
  \/ \E apiKey \in BOOLEAN : HistoryRequested(apiKey)
  \/ HistoryPageSettles
SpecHistory == Init /\ [][NextHistory]_vars
\* every fetch settles: the HTTP client gives up on a silent upstream
FairSpecHistory == SpecHistory /\ WF_vars(HistoryPageSettles)

\* The export-mp4 endpoint under concurrent requests.
NextEndpoint ==
  \/ \E r \in 1..MaxRequests, body \in {"empty", "bytes"} : RequestArrives(r, body)
  \/ \E r \in 1..MaxRequests, ffmpegStatic \in BOOLEAN : PayloadChecked(r, ffmpegStatic)
  \/ \E r \in 1..MaxRequests, ok \in BOOLEAN : MkdtempSettles(r, ok)
  \/ \E r \in 1..MaxRequests, ok \in BOOLEAN : WriteFileSettles(r, ok)
  \/ \E r \in 1..MaxRequests : FfmpegError(r)
  \/ \E r \in 1..MaxRequests, code \in ExitCodes : FfmpegCloses(r, code)
  \/ \E r \in 1..MaxRequests, ok \in BOOLEAN : ReadFileSettles(r, ok)
  \/ \E r \in 1..MaxRequests : RmResolves(r)
SpecEndpoint == Init /\ [][NextEndpoint]_vars

\* The playback clock over a timeline that imports, titles, removals and
\* seeks keep changing; animation frames are delivered as long as one is
\* scheduled.
PlaybackBatches == [1..1 -> {f \in MediaFiles : f.dur # 54 /\ f.type \in {"video", "image"}}]
NextPlayback ==
  \/ \E id \in 1..(MaxClips + 3) : SelectClip(id) /\ UNCHANGED extVars
  \/ \E id \in 1..(MaxOverlays + 2) : SelectOverlay(id) /\ UNCHANGED extVars
  \/ RemoveClip /\ UNCHANGED extVars
  \/ AddOverlay("title") /\ UNCHANGED extVars
  \/ RemoveOverlay /\ UNCHANGED extVars
  \/ \E files \in PlaybackBatches : ImportMedia(files, MaxClips) /\ UNCHANGED extVars
  \/ ImportStep
  \/ TogglePlayback /\ UNCHANGED extVars
  \/ \E t \in SeekTimes : SeekTo(t) /\ UNCHANGED extVars
  \/ \E d \in {-SEEK_BUTTON_DELTA, SEEK_BUTTON_DELTA} : SeekBy(d) /\ UNCHANGED extVars
  \/ \E elapsed \in FrameDeltas : StepPlayback(elapsed) /\ UNCHANGED extVars
  \/ UserLeaves /\ UNCHANGED extVars
SpecPlayback == Init /\ [][NextPlayback]_vars
FairSpecPlayback ==
  SpecPlayback
    /\ WF_vars(\E elapsed \in FrameDeltas : StepPlayback(elapsed) /\ UNCHANGED extVars)

\* An export from its start to its end, while clips are imported and the Play
\* button is pressed.
ExportBatches == [1..1 -> {f \in MediaFiles : f.dur # 54 /\ f.type \in {"video", "image"}}]
NextExport ==
  \/ \E files \in ExportBatches : ImportMedia(files, MaxClips) /\ UNCHANGED extVars
  \/ ImportStep
  \/ TogglePlayback /\ UNCHANGED extVars
  \/ \E elapsed \in FrameDeltas : StepPlayback(elapsed) /\ UNCHANGED extVars
  \/ ExportMp4 /\ UNCHANGED extVars
  \/ ExportStep
SpecExport == Init /\ [][NextExport]_vars

\* A timeline on which overlays and clips are stacked in time.
StackBatches == [1..1 -> {f \in MediaFiles : f.dur = 100 /\ f.type \in {"video", "image"}}]
NextStack ==
  \/ \E kind \in {"title", "sticker"} : AddOverlayWithin(kind, MaxStacked) /\ UNCHANGED extVars
  \/ RemoveOverlay /\ UNCHANGED extVars
  \/ \E id \in 1..MaxStacked : SelectOverlay(id) /\ UNCHANGED extVars
  \/ \E files \in StackBatches : ImportMedia(files, MaxClips) /\ UNCHANGED extVars
  \/ ImportStep
  \/ \E t \in SeekTimes : SeekTo(t) /\ UNCHANGED extVars
SpecStack == Init /\ [][NextStack]_vars

\* The volume field and the mute button on imported clips.
VolumeBatches == [1..1 -> {f \in MediaFiles : f.dur = 100}]
VolumeValues == {-10, 0, 5, 50, 150, 300}
NextVolume ==
  \/ \E files \in VolumeBatches : ImportMedia(files, MaxClips) /\ UNCHANGED extVars
  \/ ImportStep
  \/ \E id \in 1..MaxClips : SelectClip(id) /\ UNCHANGED extVars
  \/ \E v \in VolumeValues, fin \in BOOLEAN :
       UpdateSelectedClipField("volume", v, fin) /\ UNCHANGED extVars
  \/ ToggleSelectedVideoMute /\ UNCHANGED extVars
SpecVolume == Init /\ [][NextVolume]_vars

\* Exports whose conversion request is answered with an error body.
NextConvert ==
  \/ \E files \in ExportBatches : ImportMedia(files, MaxClips) /\ UNCHANGED extVars
  \/ ImportStep
  \/ ExportMp4 /\ UNCHANGED extVars
  \/ ExportStep
  \/ \E response \in ErrorResponses : ExportApiAnswersError(response) /\ UNCHANGED extVars
SpecConvert == Init /\ [][NextConvert]_vars

\* an awaited call of the export settles one way or the other: the setup of
\* renderProjectToWebm, `await finished`, the conversion request or its timeout
ExportAwaitSettles ==
  \/ ExportSetupThrows \/ ExportSetupDone
  \/ ExportRecordingFails \/ ExportRenderSucceeds
  \/ ExportEmptyBuffer
  \/ ExportConvertSucceeds \/ ExportConvertFails

\* animation frames keep firing and awaited calls settle; an error of the
\* recorder is not bound to happen
FairSpecExport ==
  SpecExport
    /\ WF_vars(\E dt \in FrameDeltas : ExportFrame(dt) /\ UNCHANGED extVars)
    /\ WF_vars(ExportAwaitSettles /\ UNCHANGED extVars)

\* The preview elements under playback: the clock steps, the elements play
\* on at their own pace, and every frame synchronizes them.
PreviewBatches == [1..1 -> {f \in MediaFiles : f.dur = 100}]
NextPreview ==
  \/ \E files \in PreviewBatches : ImportMedia(files, MaxClips) /\ UNCHANGED extVars
  \/ ImportProbeResolves /\ UNCHANGED extVars
  \/ PreviewImportPutResolves /\ UNCHANGED <<cpVars, drVars, svVars, elVars, pjVars, srVars, hsVars>>
  \/ PreviewImportSaveResolves /\ UNCHANGED <<cpVars, drVars, svVars, elVars, pjVars, srVars, hsVars>>
  \/ ImportAwaitRejects /\ UNCHANGED extVars
  \/ PreviewTogglePlayback /\ UNCHANGED <<cpVars, drVars, svVars, elVars, pjVars, srVars, hsVars>>
  \/ \E elapsed \in FrameDeltas : PreviewStepPlayback(elapsed) /\ UNCHANGED <<cpVars, drVars, svVars, elVars, pjVars, srVars, hsVars>>
  \/ \E t \in SeekTimes : PreviewSeekTo(t) /\ UNCHANGED <<cpVars, drVars, svVars, elVars, pjVars, srVars, hsVars>>
  \/ \E id \in 1..(MaxClips + 3), step \in MediaSteps :
       MediaAdvances(id, step) /\ UNCHANGED <<cpVars, drVars, svVars, elVars, pjVars, srVars, hsVars>>
SpecPreview == Init /\ [][NextPreview]_vars

\* Caption generation over one imported source, with the draft it is saved to
\* and restored from; the import is started once the draft has been restored.
CaptionFiles == {[type |-> "audio", dur |-> 100], [type |-> "video", dur |-> 250]}
CaptionBatches == [1..1 -> CaptionFiles]
NextCaptions ==
  \/ \E files \in CaptionBatches :
       restorePc = "done" /\ ImportMedia(files, 1) /\ UNCHANGED extVars
  \/ ImportProbeResolves /\ UNCHANGED extVars
  \/ DraftImportPutResolves
  \/ ImportSaveResolves /\ UNCHANGED extVars
  \/ GenerateCaptions /\ UNCHANGED <<prVars, drVars, svVars, elVars, pjVars, srVars, hsVars>>
  \/ \E j \in 1..MaxCaptionJobs : DraftCaptionGetFileResolves(j)
  \/ \E j \in 1..MaxCaptionJobs, chunks \in ChunkLists, saved \in BOOLEAN :
       DraftCaptionModelReturns(j, chunks, saved)
  \/ \E j \in 1..MaxCaptionJobs, text \in ResultTexts, saved \in BOOLEAN :
       DraftCaptionModelReturnsText(j, text, saved)
  \/ \E j \in 1..MaxCaptionJobs : CaptionModelFails(j) /\ UNCHANGED <<prVars, drVars, svVars, elVars, pjVars, srVars, hsVars>>
  \/ \E j \in 1..MaxCaptionJobs : CaptionSaveSettles(j) /\ UNCHANGED <<prVars, drVars, svVars, elVars, pjVars, srVars, hsVars>>
  \/ \E t \in 1..MaxTimers, written \in BOOLEAN : DraftTimerFires(t, written)
  \/ RestoreGetProjectResolves
  \/ RestoreGetFileResolves
  \/ RestoreRejects
  \/ Reload
  \/ \E id \in 1..(MaxClips + 3) : BlobLost(id)
SpecCaptions == Init /\ [][NextCaptions]_vars

\* The draft: edits that queue a save, the timer, the store and its blobs,
\* and the restore of the next page load.
DraftBatches == [1..1 -> {f \in CaptionFiles : f.type = "audio"}]
DraftChunkLists == {<<TwoWords>>}
NextDraft ==
  \/ RestoreGetProjectResolves
  \/ RestoreGetFileResolves
  \/ RestoreRejects
  \/ Reload
  \/ \E id \in 1..(MaxClips + 3) : BlobLost(id)
  \/ \E files \in DraftBatches :
       restorePc = "done" /\ ImportMedia(files, MaxClips) /\ UNCHANGED extVars
  \/ ImportProbeResolves /\ UNCHANGED extVars
  \/ DraftImportPutResolves
  \/ ImportSaveResolves /\ UNCHANGED extVars
  \/ DraftAddOverlay("title")
  \/ \E style \in CaptionStyles : SetCaptionStyle(style)
  \/ GenerateCaptions /\ UNCHANGED <<prVars, drVars, svVars, elVars, pjVars, srVars, hsVars>>
  \/ \E j \in 1..MaxCaptionJobs : DraftCaptionGetFileResolves(j)
  \/ \E j \in 1..MaxCaptionJobs, chunks \in DraftChunkLists :
       DraftCaptionModelReturns(j, chunks, TRUE)
  \/ \E j \in 1..MaxCaptionJobs : CaptionSaveSettles(j) /\ UNCHANGED <<prVars, drVars, svVars, elVars, pjVars, srVars, hsVars>>
  \/ \E t \in 1..MaxTimers, written \in BOOLEAN : DraftTimerFires(t, written)
SpecDraft == Init /\ [][NextDraft]_vars

\* Caption generation asked for again while an earlier invocation runs.
NextRegenerate ==
  \/ \E files \in CaptionBatches :
       restorePc = "done" /\ ImportMedia(files, 1) /\ UNCHANGED extVars
  \/ ImportProbeResolves /\ UNCHANGED extVars
  \/ DraftImportPutResolves
  \/ ImportSaveResolves /\ UNCHANGED extVars
  \/ GenerateCaptionsWithin(MaxOverlappingJobs)
       /\ UNCHANGED <<prVars, drVars, svVars, elVars, pjVars, srVars, hsVars>>
  \/ \E j \in 1..MaxOverlappingJobs : DraftCaptionGetFileResolves(j)
  \/ \E j \in 1..MaxOverlappingJobs, chunks \in DraftChunkLists :
       DraftCaptionModelReturns(j, chunks, TRUE)
  \/ \E j \in 1..MaxOverlappingJobs :
       CaptionModelFails(j) /\ UNCHANGED <<prVars, drVars, svVars, elVars, pjVars, srVars, hsVars>>
  \/ \E j \in 1..MaxOverlappingJobs :
       CaptionSaveSettles(j) /\ UNCHANGED <<prVars, drVars, svVars, elVars, pjVars, srVars, hsVars>>
  \/ \E t \in 1..MaxTimers, written \in BOOLEAN : DraftTimerFires(t, written)
  \/ RestoreGetProjectResolves
SpecRegenerate == Init /\ [][NextRegenerate]_vars

\* Draft writes in flight: the timer, an import and a caption generation each
\* save while the transactions of the others are open.
SavesBatches == [1..1 -> {f \in CaptionFiles : f.type = "audio"}]
NextSaves ==
  \/ RestoreGetProjectResolves
  \/ ClockTicks
  \/ \E files \in SavesBatches :
       restorePc = "done" /\ ImportMedia(files, 1) /\ UNCHANGED extVars
  \/ ImportProbeResolves /\ UNCHANGED extVars
  \/ \E written \in BOOLEAN : SavesImportPutResolves(written)
  \/ SavesImportSettles
  \/ SavesAddOverlay("title")
  \/ \E t \in 1..MaxTimers, written \in BOOLEAN : SavesTimerFires(t, written)
  \/ SavesTimerSettles
  \/ GenerateCaptions /\ UNCHANGED <<prVars, drVars, svVars, elVars, pjVars, srVars, hsVars>>
  \/ \E j \in 1..MaxCaptionJobs : DraftCaptionGetFileResolves(j)
  \/ \E j \in 1..MaxCaptionJobs, chunks \in DraftChunkLists, saved \in BOOLEAN :
       SavesCaptionModelReturns(j, chunks, saved)
  \/ \E j \in 1..MaxCaptionJobs : SavesCaptionSettles(j)
SpecSaves == Init /\ [][NextSaves]_vars

\* The caption window under the clock: one imported source, its generated
\* captions and seeks onto and between the cue boundaries.
WindowBatches == [1..1 -> {f \in CaptionFiles : f.type = "audio"}]
CaptionSeekTimes == {20, 25, 35, 40}
NextWindow ==
  \/ RestoreGetProjectResolves
  \/ \E files \in WindowBatches :
       restorePc = "done" /\ ImportMedia(files, 1) /\ UNCHANGED extVars
  \/ ImportProbeResolves /\ UNCHANGED extVars
  \/ DraftImportPutResolves
  \/ ImportSaveResolves /\ UNCHANGED extVars
  \/ \E t \in CaptionSeekTimes : SeekTo(t) /\ UNCHANGED extVars
  \/ GenerateCaptions /\ UNCHANGED <<prVars, drVars, svVars, elVars, pjVars, srVars, hsVars>>
  \/ \E j \in 1..MaxCaptionJobs : DraftCaptionGetFileResolves(j)
  \/ \E j \in 1..MaxCaptionJobs, chunks \in ChunkLists :
       DraftCaptionModelReturns(j, chunks, TRUE)
  \/ \E j \in 1..MaxCaptionJobs : CaptionModelFails(j) /\ UNCHANGED <<prVars, drVars, svVars, elVars, pjVars, srVars, hsVars>>
  \/ \E j \in 1..MaxCaptionJobs : CaptionSaveSettles(j) /\ UNCHANGED <<prVars, drVars, svVars, elVars, pjVars, srVars, hsVars>>
  \/ \E t \in 1..MaxTimers : DraftTimerFires(t, TRUE)
SpecWindow == Init /\ [][NextWindow]_vars

(* ---------------- properties of the drag gestures ---------------------- *)
MediaClips == {clips[i] : i \in {j \in 1..Len(clips) : clips[j].kind # "image"}}
AllClips == {clips[i] : i \in 1..Len(clips)}
DraggedClip == clips[ClipIndex(dragState.clipId)]

OffsetInSource(c) ==
  0 <= c.sourceOffset /\ c.sourceOffset <= c.sourceDuration - MIN_CLIP_DURATION

\* C1: a trim-left pointermove on a video or audio clip whose resulting
\* sourceOffset lies within the source leaves start + duration at the value it
\* had when the drag started.
C1_TrimLeftKeepsEnd ==
  [][\A dx \in DragPixels :
       (/\ OnPointerMove(dx)
        /\ dragState.mode = "trim-left"
        /\ dragState.clipId \in ClipIds
        /\ DraggedClip.kind # "image"
        /\ OffsetInSource(DraggedClip'))
       => DraggedClip'.start + DraggedClip'.duration
            = dragState.initialStart + dragState.initialDuration]_vars

\* C2: every clip is at least MIN_CLIP_DURATION long and every video or audio
\* clip has 0 <= sourceOffset <= sourceDuration - MIN_CLIP_DURATION.
C2_DurationAndOffsetBounds ==
  /\ \A c \in AllClips : c.duration >= MIN_CLIP_DURATION
  /\ \A c \in MediaClips : OffsetInSource(c)

\* the quantisation of the timeline: sums may exceed by less than one time step
EPSILON == TIME_STEP

SameTrack(c, kind) ==
  IF kind = "audio" THEN c.kind = "audio" ELSE c.kind \in {"video", "image"}

\* the largest end over the clips of a track, 0 on an empty track
TrackEndAt(cs, kind) ==
  LET ends == {cs[i].start + cs[i].duration :
                 i \in {j \in 1..Len(cs) : SameTrack(cs[j], kind)}}
  IN IF ends = {} THEN 0 ELSE CHOOSE m \in ends : \A e \in ends : e <= m

AllEnds ==
  {clips[i].start + clips[i].duration : i \in 1..Len(clips)}
    \cup {overlays[i].start + overlays[i].duration : i \in 1..Len(overlays)}

\* C4: projectDuration is the largest start + duration over all clips and all
\* overlays, and 0 when the timeline holds neither.
C4_ProjectDurationIsMaxEnd ==
  IF AllEnds = {}
  THEN projectDuration = 0
  ELSE /\ projectDuration \in AllEnds
       /\ \A e \in AllEnds : e <= projectDuration

\* two clips of different kinds and an overlay that ends after both of them
C4_Witness ==
  /\ Len(clips) = 2
  /\ clips[1].kind # clips[2].kind
  /\ Len(overlays) = 1
  /\ \A i \in 1..Len(clips) :
        clips[i].start + clips[i].duration < overlays[1].start + overlays[1].duration
  /\ projectDuration > 0

PlaybackEnded ==
  /\ ~isPlaying
  /\ ~playbackRaf
  /\ currentTime = projectDuration
  /\ lastSync = "forced"

C7_ClockWithinProject == 0 <= currentTime /\ currentTime <= projectDuration

(* ---------------- properties of the export ----------------------------- *)
\* C8: never is the playback clock running, with a frame scheduled, while
\* the export is in its render stage.
C8_NoPlaybackDuringRender == ~(isPlaying /\ playbackRaf /\ mp4Stage = "render")

ExportFails ==
  \/ ExportSetupThrows
  \/ ExportRecordingFails
  \/ ExportEmptyBuffer
  \/ ExportConvertFails

C10_RefusedExportChangesNothing ==
  /\ [](activeExports <= 1)
  /\ [][(ExportMp4 /\ (isExportingMp4 \/ projectDuration = 0)) =>
          UNCHANGED <<tlVars, pbVars, statusMessage, imVars, isExportingMp4, mp4Stage,
                      exportProgress, exportPc, exportElapsed, recorderState,
                      recorderFailed, downloads, activeExports, userActive>>]_vars

\* exportMp4 was invoked during the render stage of a running export
C10_Witness ==
  /\ exportRefused = "exporting"
  /\ isExportingMp4
  /\ mp4Stage = "render"
  /\ recorderState = "recording"
  /\ activeExports = 1

EmptyBufferError ==
  "Rendered video buffer is empty. Please add at least one playable clip and retry."

\* C11: a conversion called with a zero-byte buffer has sent no request when
\* it fails, sends none in failing, and fails with the error text that names
\* the empty buffer.
C11_EmptyBufferFailsBeforeRequest ==
  /\ [](exportPc = "reject-empty" => ~requestSent)
  /\ [][ExportEmptyBuffer =>
          /\ ~requestSent /\ ~requestSent'
          /\ exportError' = EmptyBufferError
          /\ statusMessage' = "MP4 export failed"]_vars

\* an export that ended on the empty buffer, with no request sent
C11_Witness ==
  /\ exportError = EmptyBufferError
  /\ ~requestSent
  /\ exportProgress = 100
  /\ ~isExportingMp4

IsSpan(chunk) ==
  /\ chunk.hasTimestamp
  /\ chunk.start.finite /\ chunk.end.finite
  /\ 0 <= chunk.start.value /\ chunk.start.value < chunk.end.value
ChunkWords(chunk) == wordsOf(normalizeCaptionText(chunk.text))
IsBlank(chunk) == normalizeCaptionText(chunk.text) = <<>>

\* C13: a recognizer chunk with span [s, e) and n >= 1 words yields n cues in
\* word order, cue i starting at s + i*(e - s)/n, the first cue starting at s
\* and the last cue ending at e, whatever the span and the word count.
C13_WordsShareTheChunkSpan ==
  [][\A j \in 1..MaxCaptionJobs, saved \in BOOLEAN :
       \A chunks \in {l \in ChunkLists : Len(l) = 1 /\ IsSpan(l[1]) /\ ChunkWords(l[1]) # <<>>} :
         DraftCaptionModelReturns(j, chunks, saved) =>
           LET s == chunks[1].start.value
               e == chunks[1].end.value
               words == ChunkWords(chunks[1])
               n == Len(words)
           IN /\ Len(captions') = n
              /\ \A i \in 1..n :
                   /\ captions'[i].text = words[i]
                   /\ n * captions'[i].start = n * s + (i - 1) * (e - s)
              /\ captions'[1].start = s
              /\ captions'[n].end = e]_vars

\* C14: a chunk whose text is empty after normalization yields no cue and
\* moves the cursor to its end, so a following chunk without a timestamp gets
\* a span that starts at the end of the empty chunk.
C14_EmptyChunkAdvancesCursor ==
  [][\A j \in 1..MaxCaptionJobs, saved \in BOOLEAN :
       \A chunks \in {l \in ChunkLists :
                        /\ Len(l) = 2
                        /\ IsBlank(l[1]) /\ IsSpan(l[1])
                        /\ ~l[2].hasTimestamp /\ ~IsBlank(l[2])} :
         DraftCaptionModelReturns(j, chunks, saved) =>
           /\ Len(captions') = Len(ChunkWords(chunks[2]))
           /\ captions'[1].start = chunks[1].end.value]_vars

\* the chunk generateCaptions makes of a result that carries no chunk array
TextChunk(text, duration) ==
  [text |-> text, hasTimestamp |-> TRUE, start |-> Num(0), end |-> Num(duration)]

\* what C15 says of the cues built from the chunks with a given fallback
PlaceholderIffNoSpeech(chunks, fallbackDuration, cues) ==
  IF \A i \in 1..Len(chunks) : IsBlank(chunks[i])
  THEN /\ Len(cues) = 1
       /\ cues[1].text = PlaceholderText
       /\ cues[1].start = 0
       /\ cues[1].end >= PLACEHOLDER_MIN_END /\ cues[1].end >= fallbackDuration
       /\ cues[1].end \in {PLACEHOLDER_MIN_END, fallbackDuration}
  ELSE \A i \in 1..Len(cues) : cues[i].text # PlaceholderText

\* C15: buildCaptionCues returns exactly one placeholder cue, from 0 to
\* max(2 s, fallbackDuration), for an empty chunk list and for chunks whose
\* texts are all empty after normalization, and no placeholder otherwise.
C15_PlaceholderIffNoSpeech ==
  [][\A j \in 1..MaxCaptionJobs, saved \in BOOLEAN :
       /\ \A chunks \in ChunkLists :
            DraftCaptionModelReturns(j, chunks, saved) =>
              PlaceholderIffNoSpeech(chunks, SourceDuration(captionJobs[j]), captions')
       /\ \A text \in ResultTexts :
            DraftCaptionModelReturnsText(j, text, saved) =>
              PlaceholderIffNoSpeech(<<TextChunk(text, SourceDuration(captionJobs[j]))>>,
                                     SourceDuration(captionJobs[j]), captions')]_vars

\* a generation over a source longer than 2 s has just produced the placeholder
C15_Witness ==
  /\ Len(captionJobs) = 1 /\ captionJobs[1].pc = "save"
  /\ Len(captions) = 1
  /\ captions[1].text = PlaceholderText
  /\ captions[1].end > PLACEHOLDER_MIN_END

\* C17: every cue of the caption model holds exactly one word: its text is
\* not empty and has no whitespace, the cue for "no speech" included.
C17_CuesAreSingleWords ==
  \A i \in 1..Len(captions) :
    /\ captions[i].text # <<>>
    /\ \A k \in 1..Len(captions[i].text) : ~IsSpace(captions[i].text[k])

\* the project a running restoreDraft is about to read or has read
RestoringProject == IF restorePc = "getProject" THEN storedProject ELSE restoreProject
\* the step on which restoreDraft assigns the editor state from a stored project
RestoreAssigns ==
  /\ RestoreGetProjectResolves \/ RestoreGetFileResolves
  /\ RestoringProject # NoProject
  /\ restorePc' = "done"
OneWordCues(cues) ==
  \A i \in 1..Len(cues) :
    /\ cues[i].text # <<>>
    /\ \A k \in 1..Len(cues[i].text) : ~IsSpace(cues[i].text[k])

\* C16: normalizing stored cues on load is the identity on sequences of
\* one-word cues: the same words with the same start and end come back,
\* cues shorter than 0.2 s included.
C16_ReloadKeepsOneWordCues ==
  [][RestoreAssigns /\ OneWordCues(RestoringProject.captions)
       => captions' = RestoringProject.captions]_vars

\* the cues whose interval [start, end) contains the clock
CuesAtClock == {i \in 1..Len(captions) :
                  captions[i].start <= 3 * currentTime /\ 3 * currentTime < captions[i].end}
FirstCueAtClock == CHOOSE i \in CuesAtClock : \A k \in CuesAtClock : i <= k

\* C18: the caption window is empty iff no cue's interval [start, end)
\* contains the time; otherwise, with i the first index whose interval
\* contains it (from 0), the window is the consecutive cues from 3*floor(i/3)
\* up to min(n, 3*floor(i/3) + 3) exclusive, exactly the cue at i is flagged
\* active, and the active progress lies in [0, 1].
C18_FixedWindowsOfThree ==
  LET window == activeCaptionWindow
  IN /\ (window = <<>>) <=> (CuesAtClock = {})
     /\ CuesAtClock # {} =>
          LET i == FirstCueAtClock - 1
              from == 3 * (i \div 3)
              to == Min(Len(captions), from + 3)
          IN /\ Len(window) = to - from
             /\ \A k \in 1..Len(window) :
                  /\ window[k].text = captions[from + k].text
                  /\ window[k].start = captions[from + k].start
                  /\ window[k].end = captions[from + k].end
                  /\ window[k].isActive <=> (from + k - 1 = i)
                  /\ window[k].activeProgress >= 0 /\ window[k].activeProgress <= 1000

\* the clock is inside the last cue of a second window of three
C18_Witness ==
  /\ CuesAtClock # {}
  /\ FirstCueAtClock - 1 = 5
  /\ Len(activeCaptionWindow) = 3
  /\ activeCaptionWindow[3].isActive

(* ---------------- properties of the draft ------------------------------- *)
\* what the watcher watches, of the modelled state
Watched == <<clips, captions, overlays, captionStyleId>>
\* a handler changes the watched state of a restored editor
QualifyingMutation == hasRestoredDraft /\ hasRestoredDraft' /\ Watched' # Watched

\* C19: at most one draft-save timer is pending at any time; every
\* qualifying mutation after the restore cancels the pending timer and arms
\* a new one; and when the timer of a burst fires there is one write, of the
\* state the last mutation left, and no timer remains.
C19_SingleDebouncedTimer ==
  /\ [](Cardinality(pendingTimers) <= 1)
  /\ [][QualifyingMutation
          => /\ pendingTimers' = {draftSaveTimeout'}
             /\ draftSaveTimeout' \notin pendingTimers]_vars
  /\ [][\A t \in 1..MaxTimers, written \in BOOLEAN :
          DraftTimerFires(t, written)
            => /\ pendingTimers' = {}
               /\ written => storedProject' =
                                PayloadOf(clips, captions, overlays, captionStyleId)]_vars

\* two edits made since the stored project was written, one timer armed
C19_Witness ==
  /\ hasRestoredDraft
  /\ storedProject # NoProject
  /\ storedProject.overlays = <<>> /\ overlays # <<>>
  /\ storedProject.captionStyleId # captionStyleId
  /\ Cardinality(pendingTimers) = 1

\* the restored clips so far, after a step of restoreDraft
RestoredAfter == IF restorePc' = "done" THEN clips' ELSE restored'

\* C20: a stored clip whose fileId has no blob record is skipped without
\* error: the restored timeline is the stored clips whose blob exists, in
\* stored order, and captions, overlays and caption settings are restored.
C20_MissingBlobIsSkipped ==
  /\ [](restorePc = "getFile" => restored = <<>> \/ restoreIdx > 1)
  /\ [][RestoreGetProjectResolves /\ storedProject # NoProject
          => /\ RestoredAfter = <<>>
             /\ restorePc' = "done" <=> storedProject.clips = <<>>]_vars
  /\ [][RestoreGetFileResolves
          => LET storedClip == restoreProject.clips[restoreIdx]
             IN /\ RestoredAfter = IF storedClip.id \in storedFiles
                                   THEN Append(restored, storedClip) ELSE restored
                /\ statusMessage' # "Could not restore draft"
                /\ restorePc' = "done" <=> restoreIdx = Len(restoreProject.clips)
                /\ restorePc' # "done" => restoreIdx' = restoreIdx + 1]_vars
  /\ [][RestoreAssigns
          => /\ captions' = normalizeStoredCaptionCues(StoredCues(RestoringProject.captions))
             /\ overlays' = RestoringProject.overlays
             /\ captionStyleId' = RestoringProject.captionStyleId
             /\ hasRestoredDraft']_vars

\* a project of two clips was restored without the first, whose blob is gone
C20_Witness ==
  /\ restorePc = "done" /\ hasRestoredDraft
  /\ storedProject # NoProject
  /\ Len(storedProject.clips) = 2
  /\ storedProject.clips[1].id \notin storedFiles
  /\ clips = <<storedProject.clips[2]>>
  /\ captions # <<>> /\ captions = storedProject.captions
  /\ overlays # <<>> /\ overlays = storedProject.overlays
  /\ captionStyleId = "minimal"
  /\ statusMessage = "Restored your last draft from local storage."

(* ---------------- C21 ---------------------------------------------------- *)
\* the transactions of putProject that are open, oldest first, carry
\* non-decreasing stamps
StampsInOrder ==
  \A i \in 1..Len(pendingWrites), j \in 1..Len(pendingWrites) :
     i < j => pendingWrites[i].payload.updatedAt <= pendingWrites[j].payload.updatedAt

DragUpdates(mode) ==
  /\ \E dx \in DragPixels : OnPointerMove(dx)
  /\ dragState # NoDrag
  /\ dragState.mode = mode
  /\ dragState.clipId \in ClipIds

OtherClipsKept ==
  /\ Len(clips') = Len(clips)
  /\ \A i \in 1..Len(clips) : i # ClipIndex(dragState.clipId) => clips'[i] = clips[i]

\* the most a trim-right may leave: the rest of the source, 120 s for an image
TrimRightCeiling(c) ==
  IF c.kind = "image" THEN IMAGE_MAX_DURATION ELSE c.sourceDuration - c.sourceOffset

C22_MoveChangesStartOnly ==
  [][DragUpdates("move")
       => /\ DraggedClip' = [DraggedClip EXCEPT !.start = DraggedClip'.start]
          /\ DraggedClip'.start >= 0]_vars

C22_TrimRightChangesDurationOnly ==
  [][DragUpdates("trim-right")
       => DraggedClip' = [DraggedClip EXCEPT !.duration = DraggedClip'.duration]]_vars

\* what a pointermove writes while a trim-right drag is held, for every
\* displacement, also when it writes the values the clip already has
C22_TrimRightBounds ==
  (dragState # NoDrag /\ dragState.mode = "trim-right" /\ dragState.clipId \in ClipIds)
    => \A dx \in DragPixels :
         LET next == DragUpdate(DraggedClip, dragState, dx)
         IN /\ next.duration >= MIN_CLIP_DURATION
            /\ next.duration <= TrimRightCeiling(DraggedClip)

C22_OtherClipsKept ==
  [][(\E mode \in DragModes : DragUpdates(mode)) => OtherClipsKept]_vars

\* C22: a move update changes only start, never below 0; a trim-right update
\* changes only duration, at least MIN_CLIP_DURATION and at most
\* sourceDuration - sourceOffset (video, audio) or 120 s (image); no drag
\* update changes a clip other than the dragged one.
C22_EachModeItsOwnFields ==
  /\ C22_MoveChangesStartOnly
  /\ C22_TrimRightChangesDurationOnly
  /\ []C22_TrimRightBounds
  /\ C22_OtherClipsKept

(* ---------------- C23 ---------------------------------------------------- *)
OnStepGrid(t) == t % TIME_STEP = 0

\* the fields a pointermove of the given mode assigns
FieldsWritten(mode, clip, next) ==
  IF mode = "move" THEN {next.start}
  ELSE IF mode = "trim-right" THEN {next.duration}
  ELSE IF clip.kind = "image" THEN {next.start, next.duration}
  ELSE {next.start, next.duration, next.sourceOffset}

\* C23: whatever a pointermove of a held drag writes into start, duration or
\* sourceOffset is an integer multiple of the 1/20 s time step, for every
\* displacement, also when the remaining source length, the minimum duration
\* or zero clamps the value.
C23_DragResultsOnStepGrid ==
  (dragState # NoDrag /\ dragState.clipId \in ClipIds)
    => \A dx \in DragPixels :
         \A t \in FieldsWritten(dragState.mode, DraggedClip,
                                 DragUpdate(DraggedClip, dragState, dx)) : OnStepGrid(t)

(* ---------------- C24 ---------------------------------------------------- *)
\* C24: while a trim-left drag is held on an image clip, the pointermove of
\* every displacement writes a start and a duration whose sum is
\* start + duration of the clip at the start of the drag, also for a
\* displacement past the right edge of the clip or to before time 0.
C24_ImageTrimLeftKeepsEnd ==
  (/\ dragState # NoDrag
   /\ dragState.mode = "trim-left"
   /\ dragState.clipId \in ClipIds
   /\ DraggedClip.kind = "image")
    => \A dx \in DragPixels :
         LET next == DragUpdate(DraggedClip, dragState, dx)
         IN next.start + next.duration = dragState.initialStart + dragState.initialDuration

(* ---------------- C25 ---------------------------------------------------- *)
\* a run of stepPlayback while the clock is playing
PlaybackFrame == isPlaying /\ \E elapsed \in FrameDeltas : StepPlayback(elapsed)

\* C25: while the clock is playing no playback frame lowers currentTime,
\* whatever removals, additions and edits of clips and overlays happened since
\* the frame before (they leave currentTime alone, so the value a frame finds
\* is the value the previous frame left).
C25_FramesNeverGoBack == [][PlaybackFrame => currentTime' >= currentTime]_vars

(* ---------------- C26 ---------------------------------------------------- *)
\* a handler step during which syncPreviewMedia ran
SyncPass ==
  \/ ElImportSaveResolves
  \/ ElRemoveClip
  \/ projectDuration # 0 /\ ElTogglePlayback
  \/ isPlaying /\ \E elapsed \in FrameDeltas : ElStepPlayback(elapsed)
  \/ \E t \in SeekTimes : ElSeekTo(t)
  \/ dragState # NoDrag /\ ElOnPointerUp

\* the registered elements of the clips whose interval does not contain the
\* timeline time, in the state after a step
OutsideAfter ==
  {id \in registered \cap MediaIds(clips') : ~InsideAt(clips', currentTime', id)}

ExportAtRest == mp4Stage = "idle" /\ ~isExportingMp4

\* C27: every export that has left stage 'idle' gets back to stage 'idle'
\* with isExportingMp4 false, given that animation frames keep firing and the
\* awaited calls settle; and the frame loop goes on below projectDuration and
\* ends at the first frame whose elapsed time has reached it.
C27_ExportComesToRest ==
  /\ (mp4Stage # "idle") ~> ExportAtRest
  /\ [][(\E dt \in FrameDeltas : ExportFrame(dt))
          => (exportPc' # "record" <=> exportElapsed' >= projectDuration)]_vars

(* ---------------- C28 ---------------------------------------------------- *)
\* C28: while a call of restoreDraft has not finished, no step overwrites a
\* project record of the store: a saveDraft call made in that time, from the
\* debounce timer or from a handler, writes nothing.
C28_NoWriteDuringRestore ==
  [][restoreJobs # <<>>
       => \A p \in 1..MaxProjects :
             storedProjects[p] # NoProject => storedProjects'[p] = storedProjects[p]]_vars

(* ---------------- C29 ---------------------------------------------------- *)
\* the duration probe or the blob write of the current file of a batch fails
ImportStepFails == importPc \in {"probe", "put"} /\ ImportAwaitRejects

\* C29: when the duration probe or the blob write of a file fails during
\* importMedia, the step that ends the import writes a status message that
\* reports it, so that the status is no longer 'Importing media files...',
\* and the clips imported earlier in the batch stay on the timeline.
C29_FailedImportIsReported ==
  [][ImportStepFails
       => /\ statusMessage' # statusMessage
          /\ statusMessage' # "Importing media files..."
          /\ clips' = clips]_vars

(* ---------------- C30 ---------------------------------------------------- *)
Started == {r \in 1..MaxRequests : requests[r].pc # "none"}

HoldsTempDir(r) == requests[r].pc \in {"writeFile", "ffmpeg", "readFile", "rm"}

\* C30: a request with an empty body is answered with status 400 and has
\* neither a temporary directory created nor the transcoder started; the
\* temporary directories on disk are exactly those of the handler runs that
\* are between mkdtemp and the end of their finally block, so that a finished
\* run has left none behind, whether it ended by a conversion, a spawn error,
\* a non-zero exit code or an unreadable output; and a run answers with status
\* 200 only after exit code 0.
C30_EndpointCleansUp ==
  /\ \A r \in Started :
        requests[r].body = "empty"
          => /\ requests[r].tempDir = 0 /\ ~requests[r].spawned
             /\ requests[r].pc = "done" => requests[r].response = 400
  /\ tempDirs = {requests[r].tempDir : r \in {q \in Started : HoldsTempDir(q)}}
  /\ \A r \in Started :
        /\ requests[r].pc = "done" <=> requests[r].response # 0
        /\ requests[r].response = 200 => requests[r].code = "0" /\ requests[r].body = "bytes"
        /\ requests[r].code \notin {"none", "0"} /\ requests[r].pc = "done"
             => requests[r].response = 500

\* one request was converted and answered, another one ended after the
\* transcoder exited with a non-zero code, and no directory is left
C30_Witness ==
  /\ tempDirs = {}
  /\ \E r \in Started, q \in Started :
        /\ requests[r].pc = "done" /\ requests[r].response = 200 /\ requests[r].tempDir # 0
        /\ requests[q].pc = "done" /\ requests[q].code = "1" /\ requests[q].tempDir # 0

(* ---------------- C31 ---------------------------------------------------- *)
\* C31: a run of the history endpoint sends at most 20 page requests and,
\* every fetch settling, ends; each request after the first carries the
\* last_history_item_id of the page before it; a page without has_more or
\* without last_history_item_id is the last one requested; the answer of a
\* run that ends with success is the items of the pages in request order, and
\* a run that meets a non-success page answers with that status and no items.
C31_Paging ==
  /\ historyRun.fetches <= HISTORY_PAGE_LIMIT
  /\ historyRun.pc = "fetch" /\ historyRun.fetches > 1
       => historyRun.cursor = upstream.last /\ upstream.last # 0
  /\ historyRun.pc = "done" /\ historyRun.status = 200
       => historyRun.body = upstream.served
  /\ historyRun.pc = "done" /\ historyRun.status # 200 => historyRun.body = <<>>

C31_PagingStops ==
  [][\A status \in UpstreamStatuses, items \in PageItems(historyRun),
       has_more \in BOOLEAN, last \in HistoryItemIds :
         HistoryPageArrives(status, items, has_more, last)
           /\ (status # 200 \/ ~has_more \/ last = 0)
           => historyRun'.pc = "done" /\ historyRun'.fetches = historyRun.fetches]_vars

C31_HistoryIsDrainedInOrder ==
  /\ []C31_Paging
  /\ C31_PagingStops
  /\ (historyRun.pc = "fetch") ~> (historyRun.pc = "done")

\* a run that was cut off by the page limit after 20 pages, with items of
\* several pages in its answer
C31_Witness ==
  /\ historyRun.pc = "done" /\ historyRun.status = 200
  /\ historyRun.fetches = HISTORY_PAGE_LIMIT
  /\ Len(historyRun.body) = MaxItems
  /\ upstream.last # 0

(* ---------------- C32 ---------------------------------------------------- *)
\* the message the endpoint meant the caller to see
CollaboratorMessage(response) ==
  IF response.json /\ response.object /\ response.statusMessage # "" THEN response.statusMessage
  ELSE IF response.json /\ response.object /\ response.message # "" THEN response.message
  ELSE IF ~response.json /\ response.text # "" THEN response.text
  ELSE ExportApiFailed(response.status)

\* C32: when the transcoding endpoint answers with a non-success status, the
\* error that convertWebmToMp4 throws carries the statusMessage (or message)
\* field of a JSON body that has one, the body text when the body is not
\* JSON, and 'Export API failed: <status>' only when there is no message.
C32_CollaboratorMessageSurfaces ==
  [][\A response \in ErrorResponses :
       ExportApiAnswersError(response)
         => exportError' = CollaboratorMessage(response)]_vars

(* ---------------- C33 ---------------------------------------------------- *)
\* the times at which the two renderers are compared: the playhead and the
\* first and last instants of every overlay and clip
QueryTimes ==
  {currentTime}
    \cup {overlays[i].start : i \in 1..Len(overlays)}
    \cup {overlays[i].start + overlays[i].duration - 1 : i \in 1..Len(overlays)}
    \cup {clips[i].start : i \in 1..Len(clips)}

\* C33: at every time the export frame loop picks the visual clip, the list
\* of active overlays in its order, and the caption window that the preview
\* shows at that time, also when clips or overlays overlap in time.
C33_SameActiveState ==
  \A t \in QueryTimes :
    /\ exportVisual(clips, t) = activeVisualClip(clips, t)
    /\ activeOverlayItems(overlays, t) = activeOverlays(overlays, t)
    /\ t = currentTime => getCaptionWindowForTime(captions, 3 * t) = activeCaptionWindow

(* ---------------- C34 ---------------------------------------------------- *)
\* the chunks carry finite timestamps and each ends before the next begins
SpansDisjoint(chunks) ==
  /\ \A i \in 1..Len(chunks) :
        /\ chunks[i].hasTimestamp /\ chunks[i].start.finite /\ chunks[i].end.finite
        /\ chunks[i].start.value <= chunks[i].end.value
  /\ \A i \in 1..(Len(chunks) - 1) : chunks[i].end.value <= chunks[i + 1].start.value

CuesDisjoint(cues) == \A i \in 1..(Len(cues) - 1) : cues[i].end <= cues[i + 1].start

\* C34: whatever chunks with non-overlapping spans the recognizer returns to
\* a running generation, the cues buildCaptionCues makes of them do not
\* overlap: each cue ends no later than the next one starts, also when a
\* word's share of its chunk is shorter than the minimum cue length.
C34_CuesDoNotOverlap ==
  \A j \in 1..Len(captionJobs) :
    captionJobs[j].pc = "model"
      => \A chunks \in ChunkLists :
           SpansDisjoint(chunks)
             => CuesDisjoint(buildCaptionCues(chunks, SourceDuration(captionJobs[j])))

(* ---------------- C35 ---------------------------------------------------- *)
\* C35: every record of the projects store holds only what was restored from
\* its project or made while its project was the current one: with a user
\* who makes titles under project 1 and stickers under project 2, the record
\* of a project holds overlays of its own kind only.
C35_RecordsHoldOwnContent ==
  \A p \in 1..MaxProjects :
    storedProjects[p] # NoProject
      => \A i \in 1..Len(storedProjects[p].overlays) :
            storedProjects[p].overlays[i].kind = OverlayKindOf(p)

(* ---------------- C36 ---------------------------------------------------- *)
\* the step in which the initial restoreDraft comes to its end
RestoreCompletes == restorePc # "done" /\ restorePc' = "done"

\* C36: what was put on the timeline while restoreDraft was still waiting
\* for the store is on the timeline when restoreDraft has completed: every
\* clip and every overlay present before the completing step is present
\* after it.
C36_EarlyEditsSurviveRestore ==
  [][RestoreCompletes
       => /\ \A i \in 1..Len(overlays) : \E k \in 1..Len(overlays') : overlays'[k] = overlays[i]
          /\ \A i \in 1..Len(clips) : \E k \in 1..Len(clips') : clips'[k] = clips[i]]_vars

(* ---------------- C37 ---------------------------------------------------- *)
\* the editor holds what restoreDraft makes of the stored record: nothing
\* was edited since
EditorIsAsRestored ==
  /\ hasRestoredDraft /\ restorePc = "done" /\ storedProject # NoProject
  /\ LET HasBlob(c) == c.id \in storedFiles
     IN clips = SelectSeq(storedProject.clips, HasBlob)
  /\ overlays = storedProject.overlays
  /\ captions = normalizeStoredCaptionCues(StoredCues(storedProject.captions))
  /\ captionStyleId = storedProject.captionStyleId

\* C37: restoring a project and editing nothing writes nothing: the step
\* that completes restoreDraft arms no draft-save timer, and a timer that
\* fires while the editor holds what was restored leaves the stored record,
\* with its updatedAt and its clips whose blob is missing, as it was.
C37_RestoreAloneWritesNothing ==
  /\ [][RestoreCompletes => pendingTimers' \subseteq pendingTimers]_vars
  /\ [][\A t \in 1..MaxTimers, written \in BOOLEAN :
          DraftTimerFires(t, written) /\ EditorIsAsRestored
            => storedProject' = storedProject]_vars

(* ---------------- C38 ---------------------------------------------------- *)
\* C38: at most one invocation of generateCaptions is in progress at any
\* time, whether it waits for the blob lookup, for the recognizer or for the
\* save: an invocation that arrives meanwhile returns at the entry test.
C38_OneGenerationAtATime == Len(captionJobs) <= 1

(* ---------------- C39 ---------------------------------------------------- *)
VideoClips == {clips[i] : i \in {j \in 1..Len(clips) : clips[j].kind = "video"}}

\* C39: a video clip that is not muted has a volume and a previous volume
\* above zero, and pressing the mute button twice on it gives back the clip
\* as it was: not muted and with the volume it had.
C39_UnmutedIsAudible ==
  \A clip \in VideoClips :
    ~clip.muted
      => /\ clip.volume > 0 /\ clip.previousVolume > 0
         /\ toggleMute(clip).muted
         /\ ~toggleMute(toggleMute(clip)).muted
         /\ toggleMute(toggleMute(clip)).volume = clip.volume

\* a video clip that was silenced through the volume field after a volume
\* below the unmute minimum, and then unmuted with the button
C39_Witness ==
  \E clip \in VideoClips :
    ~clip.muted /\ clip.volume = UNMUTE_MIN_VOLUME /\ clip.previousVolume < UNMUTE_MIN_VOLUME

(* ---------------- C40 ---------------------------------------------------- *)
\* C40: the volume assigned to the preview element of a clip is 0 for a
\* muted video clip and the clip's volume otherwise, and it lies in the
\* range 0..1 that a media element accepts.
C40_OutputVolumeInElementRange ==
  \A i \in 1..Len(clips) :
    clips[i].kind # "image"
      => /\ getOutputVolume(clips[i]) =
              (IF clips[i].kind = "video" /\ clips[i].muted THEN 0 ELSE clips[i].volume)
         /\ getOutputVolume(clips[i]) >= 0
         /\ getOutputVolume(clips[i]) <= ELEMENT_VOLUME_MAX
====
